---- MODULE Spec2Model ----
(***************************************************************************)
(* Authentication and authorization layer of the JKUSA CMS backend:        *)
(* token issuance (create_access_token), the two principal resolvers of    *)
(* app/auth/auth.py (get_current_user, get_current_admin) and the          *)
(* get_current_admin dependency that the gallery, leadership, news and     *)
(* subscriber routers define for their admin endpoints.                    *)
(*                                                                         *)
(* Time is counted in whole clock ticks.  python-jose turns the "exp"      *)
(* datetime into whole seconds when it encodes and reads the clock in      *)
(* whole seconds when it decodes, so integer time is what the code         *)
(* compares.                                                               *)
(***************************************************************************)
EXTENDS Integers, FiniteSets, Sequences, TLC

VARIABLES
    now,        \* the clock read by datetime.utcnow() and by jwt.decode
    users,      \* rows of the User table
    admins,     \* rows of the Admin table (role joined in)
    bearer,     \* the token a client holds: the last login, {} before any
    resp,       \* the outcome of the request that was just served
    lastAdmin,  \* history: the Admin rows get_current_admin returned last
    environ,    \* the process environment that os.getenv reads
    phase,      \* "importing" while the modules load, then "serving"
    password,   \* a password a person chose, a sequence of characters
    hashed,     \* the stored password hashes: [plain, value, by]
    news,       \* rows of the news table
    gallery,    \* rows of the gallery table
    leadership, \* rows of the leadership table
    subscribers,\* rows of the subscribers table
    blobs,      \* the image URLs the object store holds
    serial,     \* per table, the last identifier its sequence gave out
    inflight    \* requests that have read the database and not committed

vars == <<now, users, admins, bearer, resp, lastAdmin,
          environ, phase, password, hashed,
          news, gallery, leadership, subscribers, blobs, serial, inflight>>

\* What the requests of the authentication layer never write.
site == <<news, gallery, leadership, subscribers, blobs, serial, inflight>>
process == <<environ, phase, password, hashed, site>>

\* The content tables of a fresh database and an empty bucket.
ContentEmpty ==
    /\ news = {}
    /\ gallery = {}
    /\ leadership = {}
    /\ subscribers = {}
    /\ blobs = {}
    /\ serial = [news |-> 0, subscribers |-> 0, blobs |-> 0]
    /\ inflight = {}

-----------------------------------------------------------------------------
\* Bounds of the model.

\* The clock runs from 0 to MaxTime.
MaxTime == 3

\* The configured token lifetime, in clock ticks (the code reads it from the
\* environment, auth.py line 25, default 60 minutes).
ACCESS_TOKEN_EXPIRE_MINUTES == 2

-----------------------------------------------------------------------------
\* Values.

\* Python's None: an absent claim, an absent role.
NoneVal == "None"

UserNames == {"alice"}
AdminNames == {"alice", "bob"}
RoleNames == {"editor"}

\* The subjects and principal types a token is issued with.  The legitimate
\* login flows pass a username and "user" or "admin"; create_access_token
\* itself encodes whatever dict it is given, so a claim may be missing or odd.
TokenSubjects == {"alice", NoneVal}
TokenTypes == {"user", "admin", "guest", NoneVal}
TokenData ==
    {d \in [sub : TokenSubjects, type : TokenTypes] :
        d.sub = NoneVal => d.type \in {"user", "admin"}}

\* The routers whose admin endpoints depend on their own get_current_admin.
Routers == {"gallery", "leadership", "news", "subscribers"}

\* Configuration (auth.py lines 23-24).  The secret is whatever the
\* environment holds under JWT_SECRET_KEY, None when the variable is not set.
Secrets == {"k3y"}
Environments == [JWT_SECRET_KEY : Secrets \cup {NoneVal}]
os_getenv(name) == environ[name]
SECRET_KEY == os_getenv("JWT_SECRET_KEY")
ALGORITHM == "HS256"

\* The AdminRole table: the permissions each role grants.
RolePermissions == [editor |-> {"manage_news", "manage_gallery"}]

UserRows ==
    [username : UserNames, email : {"alice@jkusa.org"}, is_active : BOOLEAN]
\* Every state of alice's row; bob's row is the other row of the table.
AdminRows ==
    [username : {"alice"}, email : {"alice@jkusa.org"}, is_active : BOOLEAN,
     role : RoleNames \cup {NoneVal}]
    \cup {[username |-> "bob", email |-> "bob@jkusa.org", is_active |-> TRUE,
            role |-> "editor"]}

-----------------------------------------------------------------------------
\* Token codec (python-jose, as called by the code).

\* jwt.encode(claims, key, algorithm): the signature binds the claims to the
\* key, so a token whose claims were edited no longer verifies.
jwt_encode(claims, key, algorithm) ==
    [fmt |-> "jwt", alg |-> algorithm, claims |-> claims,
     sig |-> [key |-> key, over |-> claims]]

create_access_token_negative_ttl(data, t) ==
    jwt_encode([sub |-> data.sub, type |-> data.type,
                exp |-> t - ACCESS_TOKEN_EXPIRE_MINUTES], SECRET_KEY, ALGORITHM)

create_access_token_days(data, t) ==
    jwt_encode([sub |-> data.sub, type |-> data.type,
                exp |-> t + ACCESS_TOKEN_EXPIRE_MINUTES * 1440], SECRET_KEY, ALGORITHM)

\* create_access_token(data), called when the clock reads t.
create_access_token(data, t) ==
    jwt_encode([sub |-> data.sub, type |-> data.type,
                exp |-> t + ACCESS_TOKEN_EXPIRE_MINUTES], SECRET_KEY, ALGORITHM)

\* A string that is no JWT at all.
Malformed ==
    [fmt |-> "garbage", alg |-> NoneVal,
     claims |-> [sub |-> NoneVal, type |-> NoneVal, exp |-> 0],
     sig |-> [key |-> NoneVal, over |-> [sub |-> NoneVal, type |-> NoneVal, exp |-> 0]]]

\* An issued token whose type claim was rewritten, its signature kept.
Tamper(token, type) ==
    [token EXCEPT !.claims = [token.claims EXCEPT !.type = type]]

\* A token that claims alg "none" and carries no signature.
Unsigned(claims) ==
    [fmt |-> "jwt", alg |-> "none", claims |-> claims,
     sig |-> [key |-> NoneVal, over |-> claims]]

\* jwk.construct(key, algorithm) refuses a key that is neither str nor bytes
\* ("Expecting a string- or bytes-formatted key").
jwk_construct_raises(key) == key = NoneVal

SignatureValid(token, key, algorithms) ==
    /\ token.fmt = "jwt"
    /\ token.alg \in algorithms
    /\ token.sig.key = key
    /\ token.sig.over = token.claims

IsExpired_never(exp, t) == FALSE

\* jose.jwt._validate_exp: "if exp < now: raise ExpiredSignatureError".
IsExpired(exp, t) == exp < t

\* jwt.decode(token, key, algorithms) when the clock reads t: the payload, or
\* the JWTError raised (ExpiredSignatureError is a JWTError).  The JWKError
\* that building a key from None raises is no JWTError and jwt.decode lets it
\* through.
jwt_decode(token, key, algorithms, t) ==
    IF token.fmt = "jwt" /\ token.alg \in algorithms /\ jwk_construct_raises(key)
    THEN [ok |-> FALSE, error |-> "JWKError", payload |-> token.claims]
    ELSE IF ~SignatureValid(token, key, algorithms)
    THEN [ok |-> FALSE, error |-> "JWTError", payload |-> token.claims]
    ELSE IF IsExpired(token.claims.exp, t)
    THEN [ok |-> FALSE, error |-> "ExpiredSignatureError", payload |-> token.claims]
    ELSE [ok |-> TRUE, error |-> "", payload |-> token.claims]

-----------------------------------------------------------------------------
\* Credential store lookups.  Each returns the rows .first() can return: the
\* empty set stands for None.

get_user_active_only(db, username) ==
    {r \in db : r.username = username /\ r.is_active}

get_user(db, username) == {r \in db : r.username = username}

LoadAdmin_unfiltered(db, username) ==
    IF {r \in db : r.username = username} = {} THEN db
    ELSE {r \in db : r.username = username}

LoadAdmin_cached(db, username) ==
    IF \E r \in lastAdmin : r.username = username
    THEN {r \in lastAdmin : r.username = username}
    ELSE {r \in db : r.username = username}

\* db.query(Admin).options(joinedload(Admin.role)).filter(...).first()
LoadAdmin(db, username) == {r \in db : r.username = username}

-----------------------------------------------------------------------------
\* Responses.

HTTPException(status_code, detail, headers) ==
    [status |-> status_code, detail |-> detail, headers |-> headers,
     principal |-> {}]

Returned(row) ==
    [status |-> 200, detail |-> "", headers |-> {}, principal |-> {row}]

WWWAuthenticate == {<<"WWW-Authenticate", "Bearer">>}

user_credentials_exception ==
    HTTPException(401, "Could not validate user credentials", WWWAuthenticate)

admin_credentials_exception ==
    HTTPException(401, "Could not validate admin credentials", WWWAuthenticate)

admin_inactive_exception ==
    HTTPException(403, "Admin account is inactive", {})

\* What general_exception_handler makes of an exception that is no
\* HTTPException.
internal_server_error ==
    [status |-> 500, detail |-> "Internal Server Error", headers |-> {},
     principal |-> {}]

\* The headers both exception handlers of main.py put on their response, for a
\* request that carries no Origin header.
CORSHeaders ==
    {<<"Access-Control-Allow-Origin", "*">>,
     <<"Access-Control-Allow-Credentials", "true">>,
     <<"Access-Control-Allow-Methods", "GET, POST, PUT, DELETE, OPTIONS">>,
     <<"Access-Control-Allow-Headers", "*">>}

\* main.py http_exception_handler: the JSONResponse built from an
\* HTTPException.
http_exception_handler(exc) ==
    [status_code |-> exc.status, content |-> [detail |-> exc.detail],
     headers |-> CORSHeaders]

\* main.py general_exception_handler.
general_exception_handler(exc) ==
    [status_code |-> 500, content |-> [detail |-> "Internal Server Error"],
     headers |-> CORSHeaders]

\* What the client receives when the dependency ended with out: the
\* endpoint's own response if a principal was returned, else the response of
\* the handler registered for the exception.
Response(out) ==
    IF out.status = 200
    THEN [status_code |-> 200, content |-> [detail |-> ""], headers |-> {}]
    ELSE IF out.status = 500 THEN general_exception_handler(out)
    ELSE http_exception_handler(out)

OnJWTError_leak(error, credentials_exception) ==
    [credentials_exception EXCEPT !.detail = error]

\* except JWTError: raise credentials_exception.  Any other exception leaves
\* the resolver and becomes the general handler's 500.
OnJWTError(error, credentials_exception) ==
    IF error \in {"JWTError", "ExpiredSignatureError"}
    THEN credentials_exception
    ELSE internal_server_error

UserClaimsRejected_no_type(payload) == payload.sub = NoneVal

UserClaimsRejected_superseded(payload) ==
    \/ payload.sub = NoneVal \/ payload.type # "user"
    \/ \E c \in bearer : c.data.sub = payload.sub /\ c.token.claims.exp > payload.exp

\* if username is None or user_type != "user"
UserClaimsRejected(payload) ==
    payload.sub = NoneVal \/ payload.type # "user"

AdminClaimsRejected_missing_type_ok(payload) ==
    payload.sub = NoneVal \/ payload.type \notin {"admin", NoneVal}

\* if username is None or user_type != "admin"
AdminClaimsRejected(payload) ==
    payload.sub = NoneVal \/ payload.type # "admin"

\* UserSchema(...): the sanitized view of a User row.
UserSchema(user) ==
    [username |-> user.username, email |-> user.email,
     is_active |-> user.is_active]

-----------------------------------------------------------------------------
\* The resolvers of app/auth/auth.py.

get_current_user(token, db, t) ==
    LET d == jwt_decode(token, SECRET_KEY, {ALGORITHM}, t) IN
    IF ~d.ok THEN OnJWTError(d.error, user_credentials_exception)
    ELSE IF UserClaimsRejected(d.payload) THEN user_credentials_exception
    ELSE LET found == get_user(db, d.payload.sub) IN
         IF found = {} THEN user_credentials_exception
         ELSE Returned(UserSchema(CHOOSE user \in found : TRUE))

AdminGate_none(admin) == FALSE

AdminGate_requires_role(admin) == ~admin.is_active \/ admin.role = NoneVal

\* if not admin.is_active
AdminGate(admin) == ~admin.is_active

get_current_admin(token, db, t) ==
    LET d == jwt_decode(token, SECRET_KEY, {ALGORITHM}, t) IN
    IF ~d.ok THEN OnJWTError(d.error, admin_credentials_exception)
    ELSE IF AdminClaimsRejected(d.payload) THEN admin_credentials_exception
    ELSE LET found == LoadAdmin(db, d.payload.sub) IN
         IF found = {} THEN admin_credentials_exception
         ELSE LET admin == CHOOSE a \in found : TRUE IN
              IF AdminGate(admin) THEN admin_inactive_exception
              ELSE Returned(admin)

\* admin.role.permissions of a returned admin.  The role is joined in with the
\* row; an admin without a role (admin.role is None) has no permissions.
permissions(admin) ==
    IF admin.role = NoneVal THEN {} ELSE RolePermissions[admin.role]

\* The get_current_admin that admin_gallery.py, admin_leadership.py,
\* admin_news.py and admin_subscriber.py each define (the four are the same
\* text) and that every admin endpoint of those routers depends on.
router_get_current_admin(token, db, t) ==
    LET d == jwt_decode(token, SECRET_KEY, {ALGORITHM}, t) IN
    IF ~d.ok THEN OnJWTError(d.error, admin_credentials_exception)
    ELSE IF d.payload.sub = NoneVal \/ d.payload.type # "admin"
    THEN admin_credentials_exception
    ELSE LET found == {r \in db : r.username = d.payload.sub} IN
         IF found = {} THEN admin_credentials_exception
         ELSE Returned(CHOOSE a \in found : TRUE)

-----------------------------------------------------------------------------
\* State machine.

NoResp == [op |-> "none"]

Init ==
    /\ now = 0
    /\ users = {}
    /\ admins = {}
    /\ bearer = {}
    /\ resp = NoResp
    /\ lastAdmin = {}
    /\ environ = [JWT_SECRET_KEY |-> "k3y"]
    /\ phase = "serving"
    /\ password = <<>>
    /\ hashed = {}
    /\ ContentEmpty

\* The clock advances.
Tick ==
    /\ now < MaxTime
    /\ now' = now + 1
    /\ resp' = NoResp
    /\ UNCHANGED <<users, admins, bearer, lastAdmin>>
    /\ UNCHANGED process

\* A login flow issues a token; the client keeps it in place of its old one.
\* jwt.encode builds the signing key first and raises if it cannot.
Login ==
    \E data \in TokenData :
        /\ ~jwk_construct_raises(SECRET_KEY)
        /\ bearer' = {[data |-> data, iat |-> now,
                       token |-> create_access_token(data, now)]}
        /\ bearer' # bearer
        /\ resp' = NoResp
        /\ UNCHANGED <<now, users, admins, lastAdmin>>
        /\ UNCHANGED process

\* The flows outside the core that write the credential store: registration,
\* profile and role updates, deletion.  Usernames stay unique.
CreateUser ==
    \E row \in UserRows :
        /\ \A r \in users : r.username # row.username
        /\ users' = users \cup {row}
        /\ resp' = NoResp
        /\ UNCHANGED <<now, admins, bearer, lastAdmin>>
        /\ UNCHANGED process

DeleteUser ==
    \E row \in users :
        /\ users' = users \ {row}
        /\ resp' = NoResp
        /\ UNCHANGED <<now, admins, bearer, lastAdmin>>
        /\ UNCHANGED process

CreateAdmin ==
    \E row \in AdminRows :
        /\ \A r \in admins : r.username # row.username
        /\ admins' = admins \cup {row}
        /\ resp' = NoResp
        /\ UNCHANGED <<now, users, bearer, lastAdmin>>
        /\ UNCHANGED process

UpdateAdmin ==
    \E row \in admins, active \in BOOLEAN, role \in RoleNames \cup {NoneVal} :
        /\ admins' = (admins \ {row}) \cup
                        {[row EXCEPT !.is_active = active, !.role = role]}
        /\ admins' # admins
        /\ admins' \subseteq AdminRows
        /\ resp' = NoResp
        /\ UNCHANGED <<now, users, bearer, lastAdmin>>
        /\ UNCHANGED process

DeleteAdmin ==
    \E row \in admins :
        /\ admins' = admins \ {row}
        /\ resp' = NoResp
        /\ UNCHANGED <<now, users, bearer, lastAdmin>>
        /\ UNCHANGED process

\* What a caller can put in the Authorization header: the token it holds, that
\* token with its type claim rewritten, an unsigned token, or garbage.
Presentable ==
    {b.token : b \in bearer}
    \cup {Tamper(b.token, type) : b \in bearer, type \in {"user", "admin"}}
    \cup {Unsigned([sub |-> "alice", type |-> "admin", exp |-> MaxTime])}
    \cup {Malformed}

\* A request to an endpoint that depends on get_current_user.
UserRequest ==
    \E token \in Presentable :
        LET out == get_current_user(token, users, now) IN
        /\ resp' = [op |-> "get_current_user", token |-> token, out |-> out,
                    sent |-> Response(out)]
        /\ UNCHANGED <<now, users, admins, bearer, lastAdmin>>
        /\ UNCHANGED process

AdminRequest_assigns_default_role ==
    \E token \in Presentable :
        LET out == get_current_admin(token, admins, now) IN
        /\ resp' = [op |-> "get_current_admin", token |-> token, out |-> out,
                    sent |-> Response(out)]
        /\ lastAdmin' = IF out.status = 200 THEN out.principal ELSE lastAdmin
        /\ admins' = (admins \ out.principal) \cup
                        {[a EXCEPT !.role = "editor"] : a \in out.principal}
        /\ UNCHANGED <<now, users, bearer>>
        /\ UNCHANGED process

\* A request to an endpoint that depends on auth.get_current_admin.
AdminRequest ==
    \E token \in Presentable :
        LET out == get_current_admin(token, admins, now) IN
        /\ resp' = [op |-> "get_current_admin", token |-> token, out |-> out,
                    sent |-> Response(out)]
        /\ lastAdmin' = IF out.status = 200 THEN out.principal ELSE lastAdmin
        /\ UNCHANGED <<now, users, admins, bearer>>
        /\ UNCHANGED process

\* A request to an admin endpoint of one of the four routers: the endpoint
\* body runs only if that router's get_current_admin returned an admin.
RouterRequest ==
    \E router \in Routers, token \in Presentable :
        LET out == router_get_current_admin(token, admins, now) IN
        /\ resp' = [op |-> "router_get_current_admin", router |-> router,
                    token |-> token, out |-> out, sent |-> Response(out)]
        /\ UNCHANGED <<now, users, admins, bearer, lastAdmin>>
        /\ UNCHANGED process

Next ==
    \/ Tick
    \/ Login
    \/ CreateUser
    \/ DeleteUser
    \/ CreateAdmin
    \/ UpdateAdmin
    \/ DeleteAdmin
    \/ UserRequest
    \/ AdminRequest
    \/ RouterRequest

Spec == Init /\ [][Next]_vars

-----------------------------------------------------------------------------
\* The process from its start.  The environment it is started in may or may
\* not hold JWT_SECRET_KEY.

InitStartup ==
    /\ now = 0
    /\ users = {}
    /\ admins = {}
    /\ bearer = {}
    /\ resp = NoResp
    /\ lastAdmin = {}
    /\ environ \in Environments
    /\ phase = "importing"
    /\ password = <<>>
    /\ hashed = {}
    /\ ContentEmpty

\* The modules are imported: auth.py binds SECRET_KEY to os.getenv's result,
\* main.py creates the app, registers the handlers and includes the routers.
\* None of it looks at the value of SECRET_KEY.
Startup ==
    /\ phase = "importing"
    /\ phase' = "serving"
    /\ UNCHANGED <<now, users, admins, bearer, resp, lastAdmin,
                   environ, password, hashed>>
    /\ UNCHANGED site

\* A login whose create_access_token raises: jwt.encode cannot build a key
\* from None, the exception is no HTTPException and the client gets the 500.
LoginFails ==
    /\ jwk_construct_raises(SECRET_KEY)
    /\ resp' = [op |-> "login", out |-> internal_server_error,
                sent |-> Response(internal_server_error)]
    /\ UNCHANGED <<now, users, admins, bearer, lastAdmin>>
    /\ UNCHANGED process

\* Requests are served once the modules are imported.
NextStartup ==
    \/ Startup
    \/ phase = "serving" /\ Tick
    \/ phase = "serving" /\ Login
    \/ phase = "serving" /\ LoginFails
    \/ phase = "serving" /\ CreateUser
    \/ phase = "serving" /\ DeleteUser
    \/ phase = "serving" /\ CreateAdmin
    \/ phase = "serving" /\ UpdateAdmin
    \/ phase = "serving" /\ DeleteAdmin
    \/ phase = "serving" /\ UserRequest
    \/ phase = "serving" /\ AdminRequest
    \/ phase = "serving" /\ RouterRequest

SpecStartup == InitStartup /\ [][NextStartup]_vars

-----------------------------------------------------------------------------
\* One person, user and admin at once, who logs in several times and keeps
\* every token.

\* How many tokens the person keeps.
MaxTokens == 2

InitLogins ==
    /\ now = 0
    /\ users = {[username |-> "alice", email |-> "alice@jkusa.org",
                 is_active |-> TRUE]}
    /\ admins = {[username |-> "alice", email |-> "alice@jkusa.org",
                  is_active |-> TRUE, role |-> "editor"]}
    /\ bearer = {}
    /\ resp = NoResp
    /\ lastAdmin = {}
    /\ environ = [JWT_SECRET_KEY |-> "k3y"]
    /\ phase = "serving"
    /\ password = <<>>
    /\ hashed = {}
    /\ ContentEmpty

\* A further login: the new token is kept next to the earlier ones.
LoginAgain ==
    \E data \in [sub : {"alice"}, type : {"user", "admin"}] :
        /\ Cardinality(bearer) < MaxTokens
        /\ bearer' = bearer \cup {[data |-> data, iat |-> now,
                                    token |-> create_access_token(data, now)]}
        /\ bearer' # bearer
        /\ resp' = NoResp
        /\ UNCHANGED <<now, users, admins, lastAdmin>>
        /\ UNCHANGED process

NextLogins ==
    \/ Tick
    \/ LoginAgain
    \/ UserRequest
    \/ AdminRequest

SpecLogins == InitLogins /\ [][NextLogins]_vars

-----------------------------------------------------------------------------
\* Password utilities of app/auth/auth.py.  A password is a str, here a
\* sequence of characters; bcrypt works on its UTF-8 bytes.

\* The characters passwords are made of: two of one byte and one of two.
Chars == {"a", "b", "e-acute"}

utf8(c) ==
    IF c = "a" THEN <<97>> ELSE IF c = "b" THEN <<98>> ELSE <<195, 169>>

\* str.encode('utf-8')
RECURSIVE str_encode(_)
str_encode(text) ==
    IF text = <<>> THEN <<>> ELSE utf8(Head(text)) \o str_encode(Tail(text))

\* seq[:n]
Slice(seq, n) == SubSeq(seq, 1, IF Len(seq) < n THEN Len(seq) ELSE n)

\* bcrypt.gensalt(rounds): a fresh salt, here the entropy it drew.
Entropy == {"salt1", "salt2"}
bcrypt_gensalt(rounds, entropy) == [rounds |-> rounds, salt |-> entropy]

\* bcrypt.hashpw(password, salt): the hash as bytes, cost, salt and digest in
\* one value.  The digest is one-way and stands for its inputs.  The code
\* never passes more than 72 bytes.
bcrypt_hashpw(password_bytes, salt) ==
    [type |-> "bytes", fmt |-> "bcrypt", rounds |-> salt.rounds,
     salt |-> salt.salt,
     digest |-> <<salt.rounds, salt.salt, password_bytes>>]

\* bytes.decode('utf-8') and str.encode('utf-8') of a hash string.
hash_decode(h) == [h EXCEPT !.type = "str"]
hash_encode(h) == [h EXCEPT !.type = "bytes"]

\* Stored values that are no hash: None, and text or bytes bcrypt cannot
\* read a salt from.
NoneHash ==
    [type |-> "NoneType", fmt |-> "none", rounds |-> 0, salt |-> "",
     digest |-> <<>>]
GarbageStr ==
    [type |-> "str", fmt |-> "garbage", rounds |-> 0, salt |-> "",
     digest |-> <<>>]
GarbageBytes ==
    [type |-> "bytes", fmt |-> "garbage", rounds |-> 0, salt |-> "",
     digest |-> <<>>]
BadStored == {NoneHash, GarbageStr, GarbageBytes}

\* bcrypt.checkpw(password, hashed_password): TypeError unless the hash is
\* bytes, ValueError ("Invalid salt") unless it is a bcrypt hash, else whether
\* hashing the password with the hash's salt and cost gives the hash.
bcrypt_checkpw(password_bytes, hashed_password) ==
    IF hashed_password.type # "bytes"
    THEN [raised |-> TRUE, value |-> FALSE]
    ELSE IF hashed_password.fmt # "bcrypt"
    THEN [raised |-> TRUE, value |-> FALSE]
    ELSE [raised |-> FALSE,
          value |-> bcrypt_hashpw(password_bytes,
                                  [rounds |-> hashed_password.rounds,
                                   salt |-> hashed_password.salt])
                      = hashed_password]

except_reraise(outcome) == outcome

\* except Exception as e: logger.error(...); return False
except_return_false(outcome) ==
    IF outcome.raised THEN [raised |-> FALSE, value |-> FALSE] ELSE outcome

\* verify_password(plain_password, hashed_password): what it returns, or that
\* it raised.
verify_password(plain_password, hashed_password) ==
    LET hashed_bytes == IF hashed_password.type = "str"
                        THEN hash_encode(hashed_password)
                        ELSE hashed_password
        password_bytes == Slice(str_encode(plain_password), 72)
    IN  except_return_false(bcrypt_checkpw(password_bytes, hashed_bytes))

get_password_hash_71(plain, entropy) ==
    hash_decode(bcrypt_hashpw(Slice(str_encode(plain), 71),
                              bcrypt_gensalt(12, entropy)))

get_password_hash_by_chars(plain, entropy) ==
    hash_decode(bcrypt_hashpw(str_encode(Slice(plain, 72)),
                              bcrypt_gensalt(12, entropy)))

\* get_password_hash(password), entropy being what gensalt draws.
get_password_hash(plain, entropy) ==
    LET password_bytes == Slice(str_encode(plain), 72)
        salt == bcrypt_gensalt(12, entropy)
    IN  hash_decode(bcrypt_hashpw(password_bytes, salt))

\* The passwords tried: a run of "a" followed by a few characters, so that
\* the encoded length falls short of, on and beyond 72 bytes.
MaxTail == 2
PadLengths == {0, 69, 70, 71}
Pad(k) == [i \in 1..k |-> "a"]
Tails == UNION {[1..n -> Chars] : n \in 0..MaxTail}
Passwords == {Pad(k) \o tail : k \in PadLengths, tail \in Tails}

\* The longest prefix of a password that encodes to at most 72 bytes.
RECURSIVE Prefix72(_)
Prefix72(text) ==
    IF Len(str_encode(text)) <= 72 THEN text
    ELSE Prefix72(SubSeq(text, 1, Len(text) - 1))

\* What is typed at a login for a password: the password, and passwords that
\* differ from it in the last character only.
Near(text) ==
    {text} \cup {Append(text, c) : c \in Chars}
    \cup (IF text = <<>> THEN {}
          ELSE {SubSeq(text, 1, Len(text) - 1)}
               \cup {Append(SubSeq(text, 1, Len(text) - 1), c) : c \in Chars})

InitPassword ==
    /\ now = 0
    /\ users = {}
    /\ admins = {}
    /\ bearer = {}
    /\ resp = NoResp
    /\ lastAdmin = {}
    /\ environ = [JWT_SECRET_KEY |-> "k3y"]
    /\ phase = "serving"
    /\ password \in Passwords
    /\ hashed = {}
    /\ ContentEmpty

\* Registration or password change: the hash of the password is stored.
HashPassword ==
    \E entropy \in Entropy :
        /\ hashed' = {h \in hashed : h.plain # password}
                        \cup {[plain |-> password, by |-> "get_password_hash",
                                value |-> get_password_hash(password, entropy)]}
        /\ hashed' # hashed
        /\ resp' = NoResp
        /\ UNCHANGED <<now, users, admins, bearer, lastAdmin,
                       environ, phase, password>>
        /\ UNCHANGED site

\* Another account takes as its password what fits in 72 bytes of this one.
HashPrefix ==
    \E entropy \in Entropy :
        /\ Prefix72(password) # password
        /\ hashed' = {h \in hashed : h.plain # Prefix72(password)}
                        \cup {[plain |-> Prefix72(password),
                                by |-> "get_password_hash",
                                value |-> get_password_hash(Prefix72(password),
                                                            entropy)]}
        /\ hashed' # hashed
        /\ resp' = NoResp
        /\ UNCHANGED <<now, users, admins, bearer, lastAdmin,
                       environ, phase, password>>
        /\ UNCHANGED site

\* A row whose password column holds something get_password_hash did not
\* write.
StoreOther ==
    \E value \in BadStored :
        /\ hashed' = {h \in hashed : h.plain # password}
                        \cup {[plain |-> password, by |-> "other",
                                value |-> value]}
        /\ hashed' # hashed
        /\ resp' = NoResp
        /\ UNCHANGED <<now, users, admins, bearer, lastAdmin,
                       environ, phase, password>>
        /\ UNCHANGED site

\* A login checks what was typed against a stored hash.
VerifyPassword ==
    \E h \in hashed, typed \in Near(password) :
        /\ resp' = [op |-> "verify_password", plain |-> typed, stored |-> h,
                    out |-> verify_password(typed, h.value)]
        /\ UNCHANGED <<now, users, admins, bearer, lastAdmin,
                       environ, phase, password, hashed>>
        /\ UNCHANGED site

NextPassword ==
    \/ HashPassword
    \/ HashPrefix
    \/ StoreOther
    \/ VerifyPassword

SpecPassword == InitPassword /\ [][NextPassword]_vars

-----------------------------------------------------------------------------
\* Lookup by identifier, as the login flows use it: the identifier typed is a
\* username or an email address.

get_user_by_identifier_username_only(db, identifier) ==
    {r \in db : r.username = identifier}

\* db.query(User).filter((User.username == identifier) |
\*                       (User.email == identifier)).first()
get_user_by_identifier(db, identifier) ==
    {r \in db : r.username = identifier \/ r.email = identifier}

\* The same query on Admin, with the role joined in.
get_admin_by_identifier(db, identifier) ==
    {r \in db : r.username = identifier \/ r.email = identifier}

\* Usernames and addresses of the rows looked up; a username may have the
\* form of an address.
LookupNames == {"alice", "al@jkusa.org"}
LookupEmails == {"al@jkusa.org", "bo@jkusa.org"}
Identifiers == LookupNames \cup LookupEmails \cup {"carol"}

LookupUserRows ==
    [username : LookupNames, email : LookupEmails, is_active : {TRUE}]
LookupAdminRows ==
    [username : LookupNames, email : LookupEmails, is_active : {TRUE},
     role : {"editor"}]

InitLookup ==
    /\ now = 0
    /\ users = {}
    /\ admins = {}
    /\ bearer = {}
    /\ resp = NoResp
    /\ lastAdmin = {}
    /\ environ = [JWT_SECRET_KEY |-> "k3y"]
    /\ phase = "serving"
    /\ password = <<>>
    /\ hashed = {}
    /\ ContentEmpty

\* Registration: usernames and addresses stay unique within a table.
RegisterUser ==
    \E row \in LookupUserRows :
        /\ \A r \in users : r.username # row.username /\ r.email # row.email
        /\ users' = users \cup {row}
        /\ resp' = NoResp
        /\ UNCHANGED <<now, admins, bearer, lastAdmin>>
        /\ UNCHANGED process

RegisterAdmin ==
    \E row \in LookupAdminRows :
        /\ \A r \in admins : r.username # row.username /\ r.email # row.email
        /\ admins' = admins \cup {row}
        /\ resp' = NoResp
        /\ UNCHANGED <<now, users, bearer, lastAdmin>>
        /\ UNCHANGED process

\* A login looks the typed identifier up; .first() gives one of the rows the
\* filter lets through, or None.
LookupUser ==
    \E identifier \in Identifiers :
        LET found == get_user_by_identifier(users, identifier) IN
        /\ \E out \in {{r} : r \in found} \cup {{}} :
              /\ out = {} <=> found = {}
              /\ resp' = [op |-> "get_user_by_identifier",
                          identifier |-> identifier, out |-> out]
        /\ UNCHANGED <<now, users, admins, bearer, lastAdmin>>
        /\ UNCHANGED process

LookupAdmin ==
    \E identifier \in Identifiers :
        LET found == get_admin_by_identifier(admins, identifier) IN
        /\ \E out \in {{r} : r \in found} \cup {{}} :
              /\ out = {} <=> found = {}
              /\ resp' = [op |-> "get_admin_by_identifier",
                          identifier |-> identifier, out |-> out]
        /\ UNCHANGED <<now, users, admins, bearer, lastAdmin>>
        /\ UNCHANGED process

NextLookup ==
    \/ RegisterUser
    \/ RegisterAdmin
    \/ DeleteUser
    \/ DeleteAdmin
    \/ LookupUser
    \/ LookupAdmin

SpecLookup == InitLookup /\ [][NextLookup]_vars

-----------------------------------------------------------------------------
\* Vocabulary of the properties.  A request's response stays in resp until the
\* next step of any other kind, so while resp holds a response, now, users,
\* admins and bearer are those the request was served with.

\* The token the client holds is the one that was presented.
HeldPresented(b) == b \in bearer /\ resp.token = b.token

\* Strictly before the expiry instant issue time + lifetime.
Unexpired(b) == now < b.iat + ACCESS_TOKEN_EXPIRE_MINUTES

UserRowsOf(username) == {r \in users : r.username = username}
AdminRowsOf(username) == {r \in admins : r.username = username}

-----------------------------------------------------------------------------
\* C1: a token whose type claim is "admin" never makes get_current_user
\* succeed and a token whose type claim is "user" never makes
\* get_current_admin succeed, whatever the subject and the store hold: the
\* response is 401 even when the subject is the username of a record of the
\* other collection.
C1_TypeSeparation ==
    /\ (resp.op = "get_current_user" /\ resp.token.claims.type = "admin")
          => resp.out.status = 401
    /\ (resp.op = "get_current_admin" /\ resp.token.claims.type = "user")
          => resp.out.status = 401

\* An unexpired, correctly signed admin token for "alice" reaches
\* get_current_user while a User row "alice" exists, and is refused with 401.
C1_Witness ==
    /\ resp.op = "get_current_user"
    /\ \E b \in bearer :
          /\ HeldPresented(b) /\ Unexpired(b)
          /\ b.data.type = "admin"
          /\ UserRowsOf(b.data.sub) # {}
    /\ resp.out.status = 401

\* C2: a structurally valid, unexpired admin-type token that names an existing
\* admin whose active flag is false makes get_current_admin fail with 403
\* Forbidden, not with 401.
C2_InactiveAdminForbidden ==
    \A b \in bearer :
        (/\ resp.op = "get_current_admin"
         /\ HeldPresented(b) /\ Unexpired(b)
         /\ b.data.type = "admin"
         /\ \E a \in AdminRowsOf(b.data.sub) : ~a.is_active)
        => resp.out.status = 403

C2_Witness ==
    /\ resp.op = "get_current_admin"
    /\ resp.out.status = 403
    /\ \E b \in bearer :
          /\ HeldPresented(b) /\ Unexpired(b)
          /\ \E a \in AdminRowsOf(b.data.sub) : ~a.is_active

\* C3: no admin endpoint of the gallery, leadership, news or subscriber
\* routers runs on behalf of an admin whose active flag is false: the admin
\* resolution those endpoints depend on fails for an inactive admin.
C3_RoutersRefuseInactiveAdmin ==
    (resp.op = "router_get_current_admin" /\ resp.out.status = 200)
        => \A a \in resp.out.principal : a.is_active

\* An inactive admin's valid token reaches an admin endpoint of a router and
\* the router's get_current_admin returns the admin.
C3_InactiveAdminServed ==
    /\ resp.op = "router_get_current_admin"
    /\ resp.out.status = 200
    /\ \E a \in resp.out.principal : ~a.is_active

\* C4: for every issued token, verification succeeds exactly while now < exp,
\* exp being issue time + configured lifetime, and fails for every now >= exp,
\* now = exp included.  Stated for a token of the right type whose principal
\* exists (and, for an admin, is active), so that the resolver's answer is the
\* verification's.
C4_ValidExactlyBeforeExp ==
    \A b \in bearer :
        LET exp == b.iat + ACCESS_TOKEN_EXPIRE_MINUTES IN
        /\ (/\ resp.op = "get_current_user" /\ HeldPresented(b)
            /\ b.data.type = "user" /\ UserRowsOf(b.data.sub) # {})
           => (resp.out.status = 200 <=> now < exp)
        /\ (/\ resp.op = "get_current_admin" /\ HeldPresented(b)
            /\ b.data.type = "admin"
            /\ \E a \in AdminRowsOf(b.data.sub) : a.is_active)
           => (resp.out.status = 200 <=> now < exp)

\* A user's token is presented in the very tick its exp claim names and
\* get_current_user returns the user.
C4_AcceptedAtExp ==
    /\ resp.op = "get_current_user"
    /\ resp.out.status = 200
    /\ \E b \in bearer :
          HeldPresented(b) /\ now = b.iat + ACCESS_TOKEN_EXPIRE_MINUTES

\* C5: round trip.  Decoding, at the time of issue, the token issued for
\* subject s and type t in {user, admin} succeeds and yields exactly s and t;
\* a resolver that accepts the token at that time returns the principal s.
C5_RoundTrip ==
    \A b \in bearer :
        (b.data.sub # NoneVal /\ b.data.type \in {"user", "admin"}) =>
            LET d == jwt_decode(b.token, SECRET_KEY, {ALGORITHM}, b.iat) IN
            /\ d.ok
            /\ d.payload.sub = b.data.sub
            /\ d.payload.type = b.data.type
            /\ (/\ resp.op \in {"get_current_user", "get_current_admin"}
                /\ HeldPresented(b) /\ now = b.iat
                /\ resp.out.status = 200)
               => \A p \in resp.out.principal : p.username = b.data.sub

\* A token issued for an admin is presented in the tick it was issued in and
\* get_current_admin returns that admin.
C5_Witness ==
    /\ resp.op = "get_current_admin"
    /\ resp.out.status = 200
    /\ \E b \in bearer :
          /\ HeldPresented(b) /\ now = b.iat
          /\ \A p \in resp.out.principal : p.username = b.data.sub

\* C6: no principal state is cached.  Whatever earlier requests returned,
\* get_current_admin answers an unexpired admin token from the Admin table as
\* it is now: 401 if the record is gone, 403 if it is inactive, and otherwise
\* the record with its current role.
C6_NoStalePrincipal ==
    \A b \in bearer :
        (/\ resp.op = "get_current_admin"
         /\ HeldPresented(b) /\ Unexpired(b)
         /\ b.data.type = "admin" /\ b.data.sub # NoneVal)
        => LET rows == AdminRowsOf(b.data.sub) IN
           /\ rows = {} => resp.out.status = 401
           /\ \A a \in rows : ~a.is_active => resp.out.status = 403
           /\ \A a \in rows : a.is_active =>
                 (resp.out.status = 200 /\ resp.out.principal = {a})

\* An earlier request returned the admin; the record was then deactivated,
\* deleted or given another role, and the next request shows it.
C6_Witness ==
    /\ resp.op = "get_current_admin"
    /\ \E b \in bearer, old \in lastAdmin :
          /\ HeldPresented(b) /\ Unexpired(b)
          /\ b.data.type = "admin"
          /\ old.username = b.data.sub
          /\ resp.out.status = 403
          /\ \E a \in AdminRowsOf(b.data.sub) : ~a.is_active

\* C7: the token lifecycle is Issued -> Valid -> {Expired | Rejected}, with no
\* revocation.  While its principal exists (and, for an admin, is active) a
\* correctly signed token of the right type is honoured on every presentation
\* before its expiry, whatever happened since it was issued, and is refused
\* on every presentation after it; a token the codec refuses is refused at
\* every later time.
C7_Honoured ==
    \A b \in bearer :
        LET exp == b.iat + ACCESS_TOKEN_EXPIRE_MINUTES IN
        /\ (/\ resp.op = "get_current_user" /\ HeldPresented(b)
            /\ b.data.type = "user" /\ UserRowsOf(b.data.sub) # {})
           => /\ now < exp => resp.out.status = 200
              /\ now > exp => resp.out.status = 401
        /\ (/\ resp.op = "get_current_admin" /\ HeldPresented(b)
            /\ b.data.type = "admin"
            /\ \E a \in AdminRowsOf(b.data.sub) : a.is_active)
           => /\ now < exp => resp.out.status = 200
              /\ now > exp => resp.out.status = 401

C7_NoWayBack ==
    \A b \in bearer \cap bearer' :
        ~jwt_decode(b.token, SECRET_KEY, {ALGORITHM}, now).ok
            => ~jwt_decode(b.token, SECRET_KEY, {ALGORITHM}, now').ok

\* C7, as one property of every step: the state a step leads to honours and
\* refuses as above, and no step makes a refused token acceptable again.
C7_TokenLifecycle == [][C7_Honoured' /\ C7_NoWayBack]_vars

\* A token issued earlier is honoured at a later tick, before its expiry,
\* after the admin was already resolved once.
C7_Witness ==
    /\ resp.op = "get_current_admin"
    /\ resp.out.status = 200
    /\ lastAdmin # {}
    /\ \E b \in bearer : HeldPresented(b) /\ b.iat < now /\ Unexpired(b)

\* C8: a token whose type claim is absent or is anything but the type the
\* resolver recognises, or whose subject claim is absent, is refused with 401
\* by get_current_user and by get_current_admin.
C8_ClaimsRequired ==
    /\ (/\ resp.op = "get_current_user"
        /\ (resp.token.claims.type # "user" \/ resp.token.claims.sub = NoneVal))
       => resp.out.status = 401
    /\ (/\ resp.op = "get_current_admin"
        /\ (resp.token.claims.type # "admin" \/ resp.token.claims.sub = NoneVal))
       => resp.out.status = 401

\* A correctly signed, unexpired token without a type claim names an active
\* admin and is refused.
C8_Witness ==
    /\ resp.op = "get_current_admin"
    /\ resp.out.status = 401
    /\ \E b \in bearer :
          /\ HeldPresented(b) /\ Unexpired(b)
          /\ b.data.type = NoneVal
          /\ \E a \in AdminRowsOf(b.data.sub) : a.is_active

\* C9: an invalid token (bad signature, malformed), an expired token and a
\* token of the wrong type all get the same response from a resolver: the one
\* fixed 401 with the one fixed detail, so the three cannot be told apart.
C9_OpaqueFailure ==
    LET invalid == resp.token \notin {b.token : b \in bearer}
        expired == \E b \in bearer :
                      HeldPresented(b) /\ now > b.iat + ACCESS_TOKEN_EXPIRE_MINUTES
    IN
    /\ (/\ resp.op = "get_current_user"
        /\ (invalid \/ expired \/ resp.token.claims.type # "user"))
       => resp.out = [status |-> 401,
                      detail |-> "Could not validate user credentials",
                      headers |-> {<<"WWW-Authenticate", "Bearer">>},
                      principal |-> {}]
    /\ (/\ resp.op = "get_current_admin"
        /\ (invalid \/ expired \/ resp.token.claims.type # "admin"))
       => resp.out = [status |-> 401,
                      detail |-> "Could not validate admin credentials",
                      headers |-> {<<"WWW-Authenticate", "Bearer">>},
                      principal |-> {}]

\* An expired token of the right type, naming an active admin, gets the fixed
\* 401.
C9_Witness ==
    /\ resp.op = "get_current_admin"
    /\ resp.out.status = 401
    /\ resp.out.detail = "Could not validate admin credentials"
    /\ \E b \in bearer :
          /\ HeldPresented(b)
          /\ now > b.iat + ACCESS_TOKEN_EXPIRE_MINUTES
          /\ b.data.type = "admin"
          /\ \E a \in AdminRowsOf(b.data.sub) : a.is_active

\* C10: a valid token of the right type whose subject has no record in the
\* collection (never created, or deleted since the token was issued) makes
\* get_current_user and get_current_admin fail with 401.
C10_UnknownSubject ==
    \A b \in bearer :
        /\ (/\ resp.op = "get_current_user"
            /\ HeldPresented(b) /\ Unexpired(b)
            /\ b.data.type = "user" /\ b.data.sub # NoneVal
            /\ UserRowsOf(b.data.sub) = {})
           => resp.out.status = 401
        /\ (/\ resp.op = "get_current_admin"
            /\ HeldPresented(b) /\ Unexpired(b)
            /\ b.data.type = "admin" /\ b.data.sub # NoneVal
            /\ AdminRowsOf(b.data.sub) = {})
           => resp.out.status = 401

\* The admin was resolved once, its record was then deleted while another
\* admin's record stays, and its still unexpired token is refused with 401.
C10_Witness ==
    /\ resp.op = "get_current_admin"
    /\ resp.out.status = 401
    /\ admins # {}
    /\ \E b \in bearer, old \in lastAdmin :
          /\ HeldPresented(b) /\ Unexpired(b)
          /\ b.data.type = "admin"
          /\ old.username = b.data.sub
          /\ AdminRowsOf(b.data.sub) = {}

-----------------------------------------------------------------------------
\* C11: for a valid, unexpired admin token that names an active admin,
\* get_current_admin returns that admin, and the permissions the returned admin
\* carries are exactly those of the role its record names now.  An admin
\* without a role is returned all the same and carries no permission.
C11_RolePermissions ==
    \A b \in bearer :
        (/\ resp.op = "get_current_admin"
         /\ HeldPresented(b) /\ Unexpired(b)
         /\ b.data.type = "admin")
        => \A a \in AdminRowsOf(b.data.sub) : a.is_active =>
              /\ resp.out.status = 200
              /\ resp.out.principal # {}
              /\ \A p \in resp.out.principal :
                    /\ p.username = a.username
                    /\ a.role # NoneVal =>
                          permissions(p) = RolePermissions[a.role]
                    /\ a.role = NoneVal => permissions(p) = {}

\* The token of an active admin that has no role is presented after the
\* tick it was issued in: the request succeeds and the admin carries no
\* permission.
C11_Witness ==
    /\ resp.op = "get_current_admin"
    /\ resp.out.status = 200
    /\ \E b \in bearer, a \in admins :
          /\ HeldPresented(b) /\ Unexpired(b) /\ b.iat < now
          /\ a.username = b.data.sub /\ a.role = NoneVal
          /\ resp.out.principal # {}
          /\ \A p \in resp.out.principal : permissions(p) = {}

\* C12: the active flag gates the two resolvers differently.  An unexpired
\* user token whose subject has a User record makes get_current_user return
\* that user whether the record is active or not; an unexpired admin token
\* whose subject is an inactive admin never makes get_current_admin succeed.
C12_ActiveGateAsymmetry ==
    \A b \in bearer :
        /\ (/\ resp.op = "get_current_user"
            /\ HeldPresented(b) /\ Unexpired(b)
            /\ b.data.type = "user")
           => \A u \in UserRowsOf(b.data.sub) :
                 /\ resp.out.status = 200
                 /\ \E p \in resp.out.principal :
                       p.username = u.username /\ p.is_active = u.is_active
        /\ (/\ resp.op = "get_current_admin"
            /\ HeldPresented(b) /\ Unexpired(b)
            /\ b.data.type = "admin")
           => \A a \in AdminRowsOf(b.data.sub) :
                 ~a.is_active => resp.out.status # 200

\* An inactive user's token is presented and get_current_user returns the
\* user, marked inactive.
C12_Witness ==
    /\ resp.op = "get_current_user"
    /\ resp.out.status = 200
    /\ \E b \in bearer, u \in users :
          /\ HeldPresented(b) /\ Unexpired(b)
          /\ u.username = b.data.sub /\ ~u.is_active
          /\ \A p \in resp.out.principal : ~p.is_active

-----------------------------------------------------------------------------
\* C13: an authentication or authorization failure of a resolver reaches the
\* client, after the application's HTTPException handler, as a response with
\* the failure's status (401 or 403) that carries a WWW-Authenticate header.
C13_ChallengeReachesClient ==
    (/\ resp.op \in {"get_current_user", "get_current_admin",
                     "router_get_current_admin"}
     /\ resp.out.status \in {401, 403})
    => /\ resp.sent.status_code = resp.out.status
       /\ \E h \in resp.sent.headers : h[1] = "WWW-Authenticate"

\* get_current_user raised its 401 with the WWW-Authenticate header set, and
\* the response the handler made of it has the status but not the header.
C13_ChallengeDropped ==
    /\ resp.op = "get_current_user"
    /\ resp.out.status = 401
    /\ <<"WWW-Authenticate", "Bearer">> \in resp.out.headers
    /\ resp.sent.status_code = 401
    /\ \A h \in resp.sent.headers : h[1] # "WWW-Authenticate"

-----------------------------------------------------------------------------
\* C14: a process whose configuration holds no signing secret never reaches
\* the serving state.
C14_NoServingWithoutSecret ==
    phase = "serving" => SECRET_KEY # NoneVal

\* The process was started without JWT_SECRET_KEY, serves requests, and the
\* absence shows only when a login tries to issue a token.
C14_ServingWithoutSecret ==
    /\ phase = "serving"
    /\ environ["JWT_SECRET_KEY"] = NoneVal
    /\ resp.op = "login"
    /\ resp.out.status = 500

-----------------------------------------------------------------------------
\* C15: logins of one principal are independent.  While a principal holds a
\* token and another one issued to it at another time, each of the two is
\* honoured on every presentation before its own expiry and refused on every
\* presentation after it: issuing one never changes what verifying the other
\* gives.
C15_IndependentLogins ==
    \A b \in bearer : \A c \in bearer :
        (/\ c.data = b.data /\ c.iat # b.iat
         /\ \/ resp.op = "get_current_user" /\ b.data.type = "user"
            \/ resp.op = "get_current_admin" /\ b.data.type = "admin"
         /\ HeldPresented(b))
        => /\ now < b.iat + ACCESS_TOKEN_EXPIRE_MINUTES => resp.out.status = 200
           /\ now > b.iat + ACCESS_TOKEN_EXPIRE_MINUTES => resp.out.status = 401

\* The user logged in twice; the first token is presented after the second
\* was issued and get_current_user returns the user.
C15_Witness ==
    /\ resp.op = "get_current_user"
    /\ resp.out.status = 200
    /\ \E b \in bearer, c \in bearer :
          /\ c.data = b.data /\ b.iat < c.iat
          /\ HeldPresented(b) /\ Unexpired(b)

-----------------------------------------------------------------------------
\* C16: token issuance, get_current_user and get_current_admin leave the
\* credential store as it was, whether they succeed or fail, and what a
\* resolver answers depends on the token, the clock and the store only: the
\* same token presented again to the same resolver, clock and store being the
\* same, gets the same answer whatever was served in between.
C16_ResolverStep ==
    resp'.op \in {"get_current_user", "get_current_admin",
                  "router_get_current_admin"}

C16_StoreFrame ==
    [][/\ C16_ResolverStep => (users' = users /\ admins' = admins /\ now' = now)
       /\ bearer' # bearer => (users' = users /\ admins' = admins)
       /\ (/\ C16_ResolverStep
           /\ resp.op = resp'.op
           /\ resp.token = resp'.token) => resp'.out = resp.out]_vars

\* get_current_admin has refused an inactive admin with 403 after having
\* resolved an admin before, and the inactive admin's record is still there.
C16_Witness ==
    /\ resp.op = "get_current_admin"
    /\ resp.out.status = 403
    /\ lastAdmin # {}
    /\ \E b \in bearer, a \in admins :
          HeldPresented(b) /\ a.username = b.data.sub /\ ~a.is_active

-----------------------------------------------------------------------------
\* Vocabulary of the password properties.

\* The encoded length of a password, in bytes.
ByteLen(text) == Len(str_encode(text))

\* A stored hash that get_password_hash produced.
Genuine(h) == h.by = "get_password_hash"

\* C17: for every password of at most 72 encoded bytes, verify_password of
\* the password against a hash get_password_hash made of it returns True,
\* whatever salt was drawn.
C17_VerifyOwnHash ==
    (/\ resp.op = "verify_password"
     /\ Genuine(resp.stored)
     /\ resp.plain = resp.stored.plain
     /\ ByteLen(resp.plain) <= 72)
    => resp.out = [raised |-> FALSE, value |-> TRUE]

\* A password of exactly 72 bytes that holds a two-byte character was hashed
\* with the second salt and verifies.
C17_Witness ==
    /\ resp.op = "verify_password"
    /\ Genuine(resp.stored)
    /\ resp.plain = resp.stored.plain
    /\ ByteLen(resp.plain) = 72
    /\ \E i \in 1..Len(resp.plain) : resp.plain[i] = "e-acute"
    /\ resp.stored.value.salt = "salt2"
    /\ resp.out.value

\* C18, as the specification words it: for a password of more than 72
\* encoded bytes, the hash get_password_hash makes of it equals the hash it
\* makes of the first 72 bytes, and the password verifies against its hash.
C18_HashesEqual ==
    /\ \A x \in hashed : \A y \in hashed :
          (/\ Genuine(x) /\ Genuine(y)
           /\ ByteLen(x.plain) > 72
           /\ str_encode(y.plain) = Slice(str_encode(x.plain), 72))
          => x.value = y.value
    /\ (/\ resp.op = "verify_password"
        /\ Genuine(resp.stored)
        /\ resp.plain = resp.stored.plain
        /\ ByteLen(resp.plain) > 72)
       => resp.out = [raised |-> FALSE, value |-> TRUE]

\* C18, amended: for a password of more than 72 encoded bytes, hashing never
\* fails, the hash made of it and the hash made of its first 72 bytes are
\* equal when the two were made with the same salt, and against its hash
\* exactly the passwords with the same first 72 bytes verify, the password
\* itself among them, also when byte 72 is the first half of a two-byte
\* character.
C18_TruncationEquivalence ==
    /\ \A x \in hashed : \A y \in hashed :
          (/\ Genuine(x) /\ Genuine(y)
           /\ ByteLen(x.plain) > 72
           /\ str_encode(y.plain) = Slice(str_encode(x.plain), 72)
           /\ x.value.salt = y.value.salt)
          => x.value = y.value
    /\ (/\ resp.op = "verify_password"
        /\ Genuine(resp.stored)
        /\ ByteLen(resp.stored.plain) > 72)
       => /\ ~resp.out.raised
          /\ resp.out.value <=>
                Slice(str_encode(resp.plain), 72)
                    = Slice(str_encode(resp.stored.plain), 72)

\* A password of 73 bytes and its first 72 bytes were hashed with the same
\* salt, the hashes are equal, and the long password verifies against the
\* hash of the short one.
C18_Witness ==
    /\ resp.op = "verify_password"
    /\ resp.plain = password
    /\ ByteLen(password) > 72
    /\ resp.stored.plain # password
    /\ str_encode(resp.stored.plain) = Slice(str_encode(password), 72)
    /\ resp.out.value
    /\ \E x \in hashed :
          /\ x.plain = password /\ Genuine(x)
          /\ x.value = resp.stored.value

\* C19: verify_password always returns a boolean and never raises; against a
\* stored value that is no well-formed hash it returns False.
C19_VerifyTotal ==
    resp.op = "verify_password"
    => /\ ~resp.out.raised
       /\ resp.out.value \in BOOLEAN
       /\ resp.stored.value \in BadStored => resp.out.value = FALSE

\* The password column holds None; bcrypt.checkpw raises and verify_password
\* returns False.
C19_Witness ==
    /\ resp.op = "verify_password"
    /\ resp.stored.value = NoneHash
    /\ resp.plain = password
    /\ bcrypt_checkpw(str_encode(resp.plain), resp.stored.value).raised
    /\ resp.out = [raised |-> FALSE, value |-> FALSE]

-----------------------------------------------------------------------------
\* C20: get_user_by_identifier and get_admin_by_identifier return a record
\* exactly when some record of the table has the identifier as its username
\* or as its email address, and the record returned is such a record: a
\* record is found by its address even when its username is not the
\* identifier, and nothing is returned when neither field of any record
\* matches.
C20_FindByIdentifier ==
    /\ resp.op = "get_user_by_identifier" =>
          /\ resp.out # {} <=>
                \E r \in users : r.username = resp.identifier
                                    \/ r.email = resp.identifier
          /\ \A r \in resp.out :
                /\ r \in users
                /\ r.username = resp.identifier \/ r.email = resp.identifier
    /\ resp.op = "get_admin_by_identifier" =>
          /\ resp.out # {} <=>
                \E r \in admins : r.username = resp.identifier
                                     \/ r.email = resp.identifier
          /\ \A r \in resp.out :
                /\ r \in admins
                /\ r.username = resp.identifier \/ r.email = resp.identifier

\* A user is found by an address that is no user's username, while another
\* user is registered too.
C20_Witness ==
    /\ resp.op = "get_user_by_identifier"
    /\ \E r \in resp.out :
          r.email = resp.identifier /\ r.username # resp.identifier
    /\ \A r \in users : r.username # resp.identifier
    /\ \E r \in users : r \notin resp.out

-----------------------------------------------------------------------------
\* The content routers.  Their handlers read and write the content tables and
\* the object store; none of them writes the authentication state.

identity == <<now, users, admins, bearer, lastAdmin,
              environ, phase, password, hashed>>

\* An optional value: the empty set is None.
Opt(S) == {{}} \cup {{x} : x \in S}

the(S) == CHOOSE x \in S : TRUE

\* A file part of a form: absent, an image, or a file of another type.
Uploads == {"none", "image", "text"}

\* s3_service.upload_image gives the URL of the stored object, or None.
s3_upload(stored) ==
    IF stored THEN {serial.blobs + 1} ELSE {}

\* What can become of an upload: stored, or failed.
UploadOutcomes(file) == IF file = "image" THEN BOOLEAN ELSE {TRUE}

\* s3_service.delete_image removes the object at the URL.
s3_delete(store, url) == store \ url

\* The URLs the bucket gives its objects, in this order.
Urls == 1..2

-----------------------------------------------------------------------------
\* admin_news.py

Body == "Fees are due on Friday; pay at the finance office."

Titles == {"Fees notice", " Fees notice ", "Fees"}

Contents == {Body, " Fees are due on Friday; pay at the finance office. ",
             "Soon."}

PublishedInputs == {"2026-03-01T09:00:30", "tomorrow"}

\* str.strip on the texts above.
str_strip(s) ==
    CASE s = " Fees notice " -> "Fees notice"
      [] s = " Fees are due on Friday; pay at the finance office. " -> Body
      [] s = " Sports day " -> "Sports day"
      [] s = " Finals " -> "Finals"
      [] s = " Jane Doe " -> "Jane Doe"
      [] OTHER -> s

\* len on the texts above.
len(s) ==
    CASE s = "Fees" -> 4
      [] s = "Soon." -> 5
      [] s = "Fees notice" -> 11
      [] s = " Fees notice " -> 13
      [] s = Body -> 50
      [] OTHER -> 52

\* datetime.fromisoformat(...).replace(second=0, microsecond=0): the minute
\* of the instant, or nothing when the text is no ISO 8601 date.
parse_published_at(s) ==
    CASE s = "2026-03-01T09:00:30" -> {"2026-03-01T09:00"}
      [] OTHER -> {}

\* NewsModel.generate_slug: the words of the title in lower case; a slug is
\* the sequence of its hyphen-separated parts.
generate_slug(title) ==
    CASE str_strip(title) = "Fees notice" -> <<"fees", "notice">>
      [] OTHER -> <<"fees">>

\* The query of generate_unique_slug: a row with that slug, other than
\* the article being updated.
SlugTaken(db, slug, news_id) ==
    \E n \in db : n.slug = slug /\ (news_id # 0 => n.id # news_id)

RECURSIVE SlugLoop(_, _, _, _, _)
SlugLoop(db, base_slug, slug, counter, news_id) ==
    IF ~SlugTaken(db, slug, news_id)
    THEN slug
    ELSE SlugLoop(db, base_slug, Append(base_slug, ToString(counter)),
                  counter + 1, news_id)

generate_unique_slug_base(db, title, news_id) == generate_slug(title)

generate_unique_slug(db, title, news_id) ==
    SlugLoop(db, generate_slug(title), generate_slug(title), 1, news_id)

\* The unique index on news.slug: the row can be written when no other row
\* holds its slug.


slug_unique_index(db, row) ==
    \A n \in db : n.id # row.id => n.slug # row.slug

\* if not updated: return the row as it is, without a commit.
not_updated_never(updated) == FALSE

not_updated(updated) == ~updated

NewsFields == {"title", "slug", "content", "published_at",
               "featured_image_url"}

\* The identifiers the news sequence gives out, and the workers that serve
\* requests side by side.
NewsIds == 1..3
Workers == {"w1", "w2"}

\* The handler answers without having written anything.
NewsReply(op, status) ==
    /\ resp' = [op |-> op, status |-> status,
                slug |-> {}, committed |-> FALSE, emailed |-> FALSE]
    /\ UNCHANGED <<news, blobs, serial, inflight>>

\* create_news up to its commit: the date is parsed, the slug is chosen, the
\* image is uploaded.
create_news(title, content, published_at, featured_image, stored) ==
        LET parsed == parse_published_at(published_at)
            slug == generate_unique_slug(news, title, 0)
            url == s3_upload(stored)
            row == [id |-> 0, title |-> str_strip(title), slug |-> slug,
                    content |-> str_strip(content),
                    published_at |-> the(parsed),
                    featured_image_url |->
                        IF featured_image = "image" THEN url ELSE {}]
        IN
        /\ serial.news + Cardinality({r \in inflight : r.op = "create_news"})
              < Cardinality(NewsIds)
        /\ Cardinality(inflight) < Cardinality(Workers)
        /\ featured_image = "image" => serial.blobs < Cardinality(Urls)
        /\ IF parsed = {}
           THEN NewsReply("create_news", 400)
           ELSE IF featured_image = "text"
           THEN NewsReply("create_news", 400)
           ELSE IF featured_image = "image" /\ url = {}
           THEN NewsReply("create_news", 500)
           ELSE /\ inflight' = inflight \cup
                        {[op |-> "create_news", row |-> row,
                          changed |-> NewsFields, emailed |-> TRUE]}
                /\ blobs' = blobs \cup row.featured_image_url
                /\ serial' = IF row.featured_image_url = {} THEN serial
                             ELSE [serial EXCEPT !.blobs = @ + 1]
                /\ resp' = [op |-> "create_news", status |-> 0, slug |-> {slug},
                            committed |-> FALSE, emailed |-> FALSE]
                /\ UNCHANGED news
        /\ UNCHANGED <<gallery, leadership, subscribers>>
        /\ UNCHANGED identity

\* create_news from db.add on: the row is written unless the database
\* refuses it, and the notification emails go out.
create_news_commit(r) ==
        LET row == [r.row EXCEPT !.id = serial.news + 1] IN
        /\ r.op = "create_news"
        /\ inflight' = inflight \ {r}
        /\ serial' = [serial EXCEPT !.news = @ + 1]
        /\ IF slug_unique_index(news, row)
           THEN /\ news' = news \cup {row}
                /\ resp' = [op |-> "create_news", status |-> 200, slug |-> {row.slug},
                            committed |-> TRUE, emailed |-> TRUE]
           ELSE /\ news' = news
                /\ resp' = [op |-> "create_news", status |-> 400, slug |-> {row.slug},
                            committed |-> FALSE, emailed |-> FALSE]
        /\ UNCHANGED <<gallery, leadership, subscribers, blobs>>
        /\ UNCHANGED identity

\* update_news up to its commit: each provided field is compared with the
\* stored one, the image is replaced or removed.
update_news(news_id, title, content, published_at, featured_image, remove_image, stored) ==
        LET found == {n \in news : n.id = news_id}
            db_news == the(found)
            title_trimmed == str_strip(the(title))
            title_changed == title # {} /\ title_trimmed # db_news.title
            content_trimmed == str_strip(the(content))
            content_changed ==
                content # {} /\ content_trimmed # db_news.content
            parsed == parse_published_at(the(published_at))
            published_changed ==
                published_at # {} /\ the(parsed) # db_news.published_at
            new_slug == generate_unique_slug(news, title_trimmed, news_id)
            url == s3_upload(stored)
            removed == /\ featured_image = "none"
                       /\ remove_image = "true"
                       /\ db_news.featured_image_url # {}
            changed ==
                (IF title_changed THEN {"title", "slug"} ELSE {})
                \cup (IF content_changed THEN {"content"} ELSE {})
                \cup (IF published_changed THEN {"published_at"} ELSE {})
                \cup (IF featured_image = "image" \/ removed
                      THEN {"featured_image_url"} ELSE {})
            row == [id |-> news_id,
                    title |-> IF title_changed THEN title_trimmed
                              ELSE db_news.title,
                    slug |-> IF title_changed THEN new_slug
                             ELSE db_news.slug,
                    content |-> IF content_changed THEN content_trimmed
                                ELSE db_news.content,
                    published_at |-> IF published_changed THEN the(parsed)
                                     ELSE db_news.published_at,
                    featured_image_url |->
                        IF featured_image = "image" THEN url
                        ELSE IF removed THEN {}
                        ELSE db_news.featured_image_url]
        IN
        /\ Cardinality(inflight) < Cardinality(Workers)
        /\ featured_image = "image" => serial.blobs < Cardinality(Urls)
        /\ IF found = {}
           THEN NewsReply("update_news", 404)
           ELSE IF title_changed
                   /\ (len(title_trimmed) < 10 \/ len(title_trimmed) > 255)
           THEN NewsReply("update_news", 400)
           ELSE IF content_changed /\ len(content_trimmed) < 50
           THEN NewsReply("update_news", 400)
           ELSE IF published_at # {} /\ parsed = {}
           THEN NewsReply("update_news", 400)
           ELSE IF featured_image = "text"
           THEN NewsReply("update_news", 400)
           ELSE IF featured_image = "image" /\ url = {}
           THEN /\ blobs' = s3_delete(blobs, db_news.featured_image_url)
                /\ resp' = [op |-> "update_news", status |-> 500, slug |-> {},
                            committed |-> FALSE, emailed |-> FALSE]
                /\ UNCHANGED <<news, serial, inflight>>
           ELSE IF not_updated(changed # {})
           THEN NewsReply("update_news", 200)
           ELSE /\ blobs' =
                     IF "featured_image_url" \in changed
                     THEN s3_delete(blobs, db_news.featured_image_url)
                              \cup row.featured_image_url
                     ELSE blobs
                /\ serial' = IF featured_image = "image"
                             THEN [serial EXCEPT !.blobs = @ + 1]
                             ELSE serial
                /\ inflight' = inflight \cup
                        {[op |-> "update_news", row |-> row,
                          changed |-> changed,
                          emailed |-> \/ title_changed
                                      \/ content_changed
                                      \/ featured_image = "image"]}
                /\ resp' = [op |-> "update_news", status |-> 0,
                            slug |-> IF title_changed THEN {new_slug}
                                     ELSE {},
                            committed |-> FALSE, emailed |-> FALSE]
                /\ UNCHANGED news
        /\ UNCHANGED <<gallery, leadership, subscribers>>
        /\ UNCHANGED identity

\* update_news from db.commit on: the changed columns are written to the
\* row; a refused or failed write is rolled back.
update_news_commit(r) ==
        LET found == {n \in news : n.id = r.row.id}
            db_news == the(found)
            row == [f \in DOMAIN r.row |->
                        IF f \in r.changed THEN r.row[f] ELSE db_news[f]]
        IN
        /\ r.op = "update_news"
        /\ inflight' = inflight \ {r}
        /\ IF found = {}
           THEN /\ news' = news
                /\ resp' = [op |-> "update_news", status |-> 500, slug |-> {},
                            committed |-> FALSE, emailed |-> FALSE]
           ELSE IF ~slug_unique_index(news, row)
           THEN /\ news' = news
                /\ resp' = [op |-> "update_news", status |-> 400, slug |-> {row.slug},
                            committed |-> FALSE, emailed |-> FALSE]
           ELSE /\ news' = (news \ found) \cup {row}
                /\ resp' = [op |-> "update_news", status |-> 200, slug |-> {row.slug},
                            committed |-> TRUE, emailed |-> r.emailed]
        /\ UNCHANGED <<gallery, leadership, subscribers, blobs, serial>>
        /\ UNCHANGED identity

\* delete_news: the image goes, then the row.
delete_news(news_id) ==
        LET found == {n \in news : n.id = news_id}
            db_news == the(found)
        IN
        /\ IF found = {}
           THEN NewsReply("delete_news", 404)
           ELSE /\ blobs' = s3_delete(blobs, db_news.featured_image_url)
                /\ news' = news \ found
                /\ resp' = [op |-> "delete_news", status |-> 200, slug |-> {},
                            committed |-> TRUE, emailed |-> FALSE]
                /\ UNCHANGED <<serial, inflight>>
        /\ UNCHANGED <<gallery, leadership, subscribers>>
        /\ UNCHANGED identity

\* The state outside the content tables, as Init leaves it.
Serving ==
    /\ now = 0
    /\ users = {}
    /\ admins = {}
    /\ bearer = {}
    /\ resp = NoResp
    /\ lastAdmin = {}
    /\ environ = [JWT_SECRET_KEY |-> "k3y"]
    /\ phase = "serving"
    /\ password = <<>>
    /\ hashed = {}

\* Requests served side by side.  The articles are text only here: what is
\* at stake is the slug, which the title alone decides.
CreateNewsLookup ==
    \E title \in Titles :
        create_news(title, Body, "2026-03-01T09:00:30", "none", TRUE)

CreateNewsCommit == \E r \in inflight : create_news_commit(r)

UpdateNewsLookup ==
    \E news_id \in NewsIds, title \in Titles :
        update_news(news_id, {title}, {}, {}, "none", "false", TRUE)

UpdateNewsCommit == \E r \in inflight : update_news_commit(r)

DeleteNews == \E news_id \in NewsIds : delete_news(news_id)

InitNews == Serving /\ ContentEmpty

NextNews ==
    \/ CreateNewsLookup
    \/ CreateNewsCommit
    \/ UpdateNewsLookup
    \/ UpdateNewsCommit
    \/ DeleteNews

SpecNews == InitNews /\ [][NextNews]_vars

-----------------------------------------------------------------------------
\* admin_gallery.py

\* db.commit() writes the session, or raises when the database fails.
CommitOutcomes == {"ok", "OperationalError"}

\* db.rollback(): the database keeps what was committed before.
db_rollback_partial(persisted, session) == session

db_rollback(persisted, session) == persisted

\* str.upper on the texts of the enum fields.
str_upper(s) ==
    CASE s = "events" -> "EVENTS"
      [] s = "main" -> "MAIN"
      [] s = "executive" -> "EXECUTIVE"
      [] OTHER -> s

\* GalleryCategory(value): the member with that value, or ValueError (none).
GalleryCategoryValues == {"EVENTS", "SPORTS"}

GalleryCategory(value) ==
    IF value \in GalleryCategoryValues THEN {value} ELSE {}

GalleryTitles == {" Sports day "}
Descriptions == {"", " Finals "}
CategoryInputs == {"events", "EVENTS", "SPORTS", "picnic"}
Orders == {1, 3}
GalleryIds == 1..2

\* The identifier the table's sequence gives a new row.  The tables of this
\* router are read and written within one request, so an identifier freed
\* by a delete may be given again without any handler telling.
next_id(rows, ids) ==
    CHOOSE i \in ids :
        /\ \A r \in rows : r.id # i
        /\ \A j \in ids : j < i => \E r \in rows : r.id = j

\* text.strip() if text else None
strip_or_none(text) ==
    IF text = {} \/ text = {""} THEN {} ELSE {str_strip(the(text))}

\* stored or ""
or_empty(stored) == IF stored = {} THEN "" ELSE the(stored)

\* The handler answers; what it wrote, if anything, is stated beside it.
Answer(op, status, committed, detail) ==
    resp' = [op |-> op, status |-> status, committed |-> committed,
             detail |-> detail]

\* The next display order of a group: the number of its rows, plus one
\* (max_order = ...count(); display_order = max_order + 1).
next_display_order(group) == Cardinality(group) + 1

create_gallery(title, description, category, display_order, image, stored, db_ok) ==
    LET category_enum == GalleryCategory(str_upper(category))
        image_url == s3_upload(stored)
        order == IF display_order = 0
                 THEN next_display_order(
                          {g \in gallery : g.category = the(category_enum)})
                 ELSE display_order
        db_gallery == [id |-> next_id(gallery, GalleryIds),
                       title |-> str_strip(title),
                       description |-> strip_or_none(description),
                       category |-> the(category_enum),
                       display_order |-> order,
                       image_url |-> image_url]
    IN
    /\ Cardinality(gallery) < Cardinality(GalleryIds)
    /\ image = "image" => serial.blobs < Cardinality(Urls)
    /\ IF image = "none"
       THEN /\ Answer("create_gallery", 422, FALSE,
                      "field required")
            /\ UNCHANGED <<gallery, blobs, serial>>
       ELSE IF category_enum = {}
       THEN /\ Answer("create_gallery", 400, FALSE,
                      "Invalid category value")
            /\ UNCHANGED <<gallery, blobs, serial>>
       ELSE IF image = "text"
       THEN /\ Answer("create_gallery", 400, FALSE,
                      "File must be an image")
            /\ UNCHANGED <<gallery, blobs, serial>>
       ELSE IF image_url = {}
       THEN /\ Answer("create_gallery", 500, FALSE,
                      "Failed to upload image")
            /\ UNCHANGED <<gallery, blobs, serial>>
       ELSE IF db_ok = "ok"
       THEN /\ gallery' = gallery \cup {db_gallery}
            /\ blobs' = blobs \cup image_url
            /\ serial' = [serial EXCEPT !.blobs = @ + 1]
            /\ Answer("create_gallery", 200, TRUE,
                      "")
       ELSE /\ gallery' = db_rollback(gallery, gallery \cup {db_gallery})
            /\ blobs' = s3_delete(blobs \cup image_url, image_url)
            /\ serial' = [serial EXCEPT !.blobs = @ + 1]
            /\ Answer("create_gallery", 500, FALSE,
                      "Internal server error")
    /\ UNCHANGED <<news, leadership, subscribers, inflight>>
    /\ UNCHANGED identity

read_gallery(gallery_id) ==
    /\ IF \E g \in gallery : g.id = gallery_id
       THEN Answer("read_gallery", 200, FALSE,
                   "")
       ELSE Answer("read_gallery", 404, FALSE,
                   "Gallery item not found")
    /\ UNCHANGED site
    /\ UNCHANGED identity

\* except Exception: it catches the HTTPException raised inside the try
\* and raises a 500 in its place.
except_Exception(status) == 500

read_public_gallery(gallery_id) ==
    /\ IF \E g \in gallery : g.id = gallery_id
       THEN Answer("read_public_gallery", 200, FALSE,
                   "")
       ELSE Answer("read_public_gallery", except_Exception(404), FALSE,
                   IF except_Exception(404) = 404
                   THEN "Gallery item not found"
                   ELSE "Internal server error")
    /\ UNCHANGED site
    /\ UNCHANGED identity

update_gallery(gallery_id, title, description, category, display_order, image, remove_image, stored, db_ok) ==
    LET found == {g \in gallery : g.id = gallery_id}
        db_gallery == the(found)
        title_changed ==
            title # {} /\ str_strip(the(title)) # db_gallery.title
        description_changed ==
            /\ description # {}
            /\ str_strip(the(description))
                   # or_empty(db_gallery.description)
        category_enum == GalleryCategory(str_upper(the(category)))
        category_changed ==
            /\ category # {}
            /\ category_enum # {}
            /\ the(category_enum) # db_gallery.category
        order_changed ==
            /\ display_order # {}
            /\ the(display_order) # db_gallery.display_order
        new_image_url == s3_upload(stored)
        updated == \/ title_changed
                   \/ description_changed
                   \/ category_changed
                   \/ order_changed
                   \/ image = "image"
        session ==
            [id |-> gallery_id,
             title |-> IF title_changed THEN str_strip(the(title))
                       ELSE db_gallery.title,
             description |-> IF description_changed
                             THEN strip_or_none(description)
                             ELSE db_gallery.description,
             category |-> IF category_changed THEN the(category_enum)
                          ELSE db_gallery.category,
             display_order |-> IF order_changed THEN the(display_order)
                               ELSE db_gallery.display_order,
             image_url |-> IF image = "image" THEN new_image_url
                           ELSE db_gallery.image_url]
    IN
    /\ image = "image" => serial.blobs < Cardinality(Urls)
    /\ IF found = {}
       THEN /\ Answer("update_gallery", 404, FALSE,
                      "Gallery item not found")
            /\ UNCHANGED <<gallery, blobs, serial>>
       ELSE IF category # {} /\ category_enum = {}
       THEN /\ Answer("update_gallery", 400, FALSE,
                      "Invalid category value")
            /\ UNCHANGED <<gallery, blobs, serial>>
       ELSE IF image = "text"
       THEN /\ Answer("update_gallery", 400, FALSE,
                      "File must be an image")
            /\ UNCHANGED <<gallery, blobs, serial>>
       ELSE IF image = "image" /\ new_image_url = {}
       THEN /\ blobs' = s3_delete(blobs, db_gallery.image_url)
            /\ Answer("update_gallery", 500, FALSE,
                      "Failed to upload image")
            /\ UNCHANGED <<gallery, serial>>
       ELSE IF image = "none" /\ remove_image = "true"
               /\ db_gallery.image_url # {}
       THEN /\ Answer("update_gallery", 400, FALSE,
                      "Gallery items must have an image")
            /\ UNCHANGED <<gallery, blobs, serial>>
       ELSE IF not_updated(updated)
       THEN /\ Answer("update_gallery", 200, FALSE,
                      "")
            /\ UNCHANGED <<gallery, blobs, serial>>
       ELSE /\ blobs' = IF image = "image"
                        THEN s3_delete(blobs, db_gallery.image_url)
                                 \cup new_image_url
                        ELSE blobs
            /\ serial' = IF image = "image"
                         THEN [serial EXCEPT !.blobs = @ + 1]
                         ELSE serial
            /\ IF db_ok = "ok"
               THEN /\ gallery' = (gallery \ found) \cup {session}
                    /\ Answer("update_gallery", 200, TRUE,
                              "")
               ELSE /\ gallery' =
                         db_rollback(gallery, (gallery \ found) \cup {session})
                    /\ Answer("update_gallery", 500, FALSE,
                              "Internal Server Error")
    /\ UNCHANGED <<news, leadership, subscribers, inflight>>
    /\ UNCHANGED identity

\* The loop of the reorder handlers over the listed items: the session rows
\* after it, and whether item['id'] or item['display_order'] raised KeyError.
RECURSIVE reorder_loop(_, _)
reorder_loop(rows, items) ==
    IF items = <<>>
    THEN [raised |-> FALSE, rows |-> rows]
    ELSE IF Head(items).id = {} \/ Head(items).display_order = {}
    THEN [raised |-> TRUE, rows |-> rows]
    ELSE reorder_loop(
             {IF r.id = the(Head(items).id)
              THEN [r EXCEPT !.display_order = the(Head(items).display_order)]
              ELSE r : r \in rows},
             Tail(items))

reorder_gallery(items, db_ok) ==
    LET session == reorder_loop(gallery, items) IN
    /\ IF ~session.raised /\ db_ok = "ok"
       THEN /\ gallery' = session.rows
            /\ Answer("reorder_gallery", 200, TRUE,
                      "")
       ELSE /\ gallery' = db_rollback(gallery, session.rows)
            /\ Answer("reorder_gallery", 500, FALSE,
                      "Failed to reorder gallery items")
    /\ UNCHANGED <<news, leadership, subscribers, blobs, serial, inflight>>
    /\ UNCHANGED identity

delete_gallery(gallery_id, db_ok) ==
    LET found == {g \in gallery : g.id = gallery_id}
        db_gallery == the(found)
    IN
    /\ IF found = {}
       THEN /\ Answer("delete_gallery", 404, FALSE,
                      "Gallery item not found")
            /\ UNCHANGED <<gallery, blobs>>
       ELSE /\ blobs' = s3_delete(blobs, db_gallery.image_url)
            /\ IF db_ok = "ok"
               THEN /\ gallery' = gallery \ found
                    /\ Answer("delete_gallery", 200, TRUE,
                              "")
               ELSE /\ gallery' = gallery
                    /\ Answer("delete_gallery", 500, FALSE,
                              "Internal Server Error")
    /\ UNCHANGED <<news, leadership, subscribers, serial, inflight>>
    /\ UNCHANGED identity

-----------------------------------------------------------------------------
\* admin_leadership.py.  Of the text columns only the name is kept: bio,
\* year_of_service, position_title, school_name and hall_name are compared
\* and written as the name and the gallery's description are.

CampusValues == {"MAIN", "KAREN"}
LeadershipCategoryValues == {"EXECUTIVE"}

\* CampusType(value), LeadershipCategory(value): the member with that value,
\* or ValueError (none).
CampusType(value) == IF value \in CampusValues THEN {value} ELSE {}

LeadershipCategory(value) ==
    IF value \in LeadershipCategoryValues THEN {value} ELSE {}

\* What create_leadership does with a campus or category text before the
\* enum is looked up, and what update_leadership does.
coerce_upper(s) == str_upper(s)

coerce_as_is(s) == s

Names == {" Jane Doe "}
CampusInputs == {"main", "MAIN", "KAREN", "moon"}
LeaderCategoryInputs == {"executive", "EXECUTIVE"}
LeadershipIds == 1..1

create_leadership(name, campus, category, display_order, profile_image, stored, db_ok) ==
    LET campus_enum == CampusType(coerce_upper(campus))
        category_enum == LeadershipCategory(coerce_upper(category))
        profile_image_url ==
            IF profile_image = "image" THEN s3_upload(stored) ELSE {}
        order == IF display_order = 0
                 THEN next_display_order(
                          {l \in leadership :
                              /\ l.campus = the(campus_enum)
                              /\ l.category = the(category_enum)})
                 ELSE display_order
        db_leadership == [id |-> next_id(leadership, LeadershipIds),
                          name |-> str_strip(name),
                          campus |-> the(campus_enum),
                          category |-> the(category_enum),
                          display_order |-> order,
                          profile_image_url |-> profile_image_url]
    IN
    /\ Cardinality(leadership) < Cardinality(LeadershipIds)
    /\ profile_image = "image" => serial.blobs < Cardinality(Urls)
    /\ IF campus_enum = {} \/ category_enum = {}
       THEN /\ Answer("create_leadership", 400, FALSE,
                      "Invalid enum value")
            /\ UNCHANGED <<leadership, blobs, serial>>
       ELSE IF profile_image = "text"
       THEN /\ Answer("create_leadership", 400, FALSE,
                      "File must be an image")
            /\ UNCHANGED <<leadership, blobs, serial>>
       ELSE IF profile_image = "image" /\ profile_image_url = {}
       THEN /\ Answer("create_leadership", 500, FALSE,
                      "Failed to upload image")
            /\ UNCHANGED <<leadership, blobs, serial>>
       ELSE /\ blobs' = blobs \cup profile_image_url
            /\ serial' = IF profile_image_url = {} THEN serial
                         ELSE [serial EXCEPT !.blobs = @ + 1]
            /\ IF db_ok = "ok"
               THEN /\ leadership' = leadership \cup {db_leadership}
                    /\ Answer("create_leadership", 200, TRUE,
                              "")
               ELSE /\ leadership' =
                         db_rollback(leadership,
                                     leadership \cup {db_leadership})
                    /\ Answer("create_leadership", 500, FALSE,
                              "Internal server error")
    /\ UNCHANGED <<news, gallery, subscribers, inflight>>
    /\ UNCHANGED identity

read_leadership(leadership_id) ==
    /\ IF \E l \in leadership : l.id = leadership_id
       THEN Answer("read_leadership", 200, FALSE,
                   "")
       ELSE Answer("read_leadership", 404, FALSE,
                   "Leadership profile not found")
    /\ UNCHANGED site
    /\ UNCHANGED identity

read_public_leadership(leadership_id) ==
    /\ IF \E l \in leadership : l.id = leadership_id
       THEN Answer("read_public_leadership", 200, FALSE,
                   "")
       ELSE Answer("read_public_leadership", except_Exception(404), FALSE,
                   IF except_Exception(404) = 404
                   THEN "Leadership profile not found"
                   ELSE "Internal server error")
    /\ UNCHANGED site
    /\ UNCHANGED identity

update_leadership(leadership_id, name, campus, category, display_order, profile_image, remove_image, stored, db_ok) ==
    LET found == {l \in leadership : l.id = leadership_id}
        db_leadership == the(found)
        name_changed ==
            name # {} /\ str_strip(the(name)) # db_leadership.name
        campus_enum == CampusType(coerce_as_is(the(campus)))
        campus_changed ==
            /\ campus # {}
            /\ campus_enum # {}
            /\ the(campus_enum) # db_leadership.campus
        category_enum == LeadershipCategory(coerce_as_is(the(category)))
        category_changed ==
            /\ category # {}
            /\ category_enum # {}
            /\ the(category_enum) # db_leadership.category
        order_changed ==
            /\ display_order # {}
            /\ the(display_order) # db_leadership.display_order
        new_image_url == s3_upload(stored)
        removed == /\ profile_image = "none"
                   /\ remove_image = "true"
                   /\ db_leadership.profile_image_url # {}
        updated == \/ name_changed
                   \/ campus_changed
                   \/ category_changed
                   \/ order_changed
                   \/ profile_image = "image"
                   \/ removed
        session ==
            [id |-> leadership_id,
             name |-> IF name_changed THEN str_strip(the(name))
                      ELSE db_leadership.name,
             campus |-> IF campus_changed THEN the(campus_enum)
                        ELSE db_leadership.campus,
             category |-> IF category_changed THEN the(category_enum)
                          ELSE db_leadership.category,
             display_order |-> IF order_changed THEN the(display_order)
                               ELSE db_leadership.display_order,
             profile_image_url |->
                 IF profile_image = "image" THEN new_image_url
                 ELSE IF removed THEN {}
                 ELSE db_leadership.profile_image_url]
    IN
    /\ profile_image = "image" => serial.blobs < Cardinality(Urls)
    /\ IF found = {}
       THEN /\ Answer("update_leadership", 404, FALSE,
                      "Leadership profile not found")
            /\ UNCHANGED <<leadership, blobs, serial>>
       ELSE IF campus # {} /\ campus_enum = {}
       THEN /\ Answer("update_leadership", 400, FALSE,
                      "Invalid campus value")
            /\ UNCHANGED <<leadership, blobs, serial>>
       ELSE IF category # {} /\ category_enum = {}
       THEN /\ Answer("update_leadership", 400, FALSE,
                      "Invalid category value")
            /\ UNCHANGED <<leadership, blobs, serial>>
       ELSE IF profile_image = "text"
       THEN /\ Answer("update_leadership", 400, FALSE,
                      "File must be an image")
            /\ UNCHANGED <<leadership, blobs, serial>>
       ELSE IF profile_image = "image" /\ new_image_url = {}
       THEN /\ blobs' = s3_delete(blobs, db_leadership.profile_image_url)
            /\ Answer("update_leadership", 500, FALSE,
                      "Failed to upload image")
            /\ UNCHANGED <<leadership, serial>>
       ELSE IF not_updated(updated)
       THEN /\ Answer("update_leadership", 200, FALSE,
                      "")
            /\ UNCHANGED <<leadership, blobs, serial>>
       ELSE /\ blobs' = IF profile_image = "image" \/ removed
                        THEN s3_delete(blobs, db_leadership.profile_image_url)
                                 \cup session.profile_image_url
                        ELSE blobs
            /\ serial' = IF profile_image = "image"
                         THEN [serial EXCEPT !.blobs = @ + 1]
                         ELSE serial
            /\ IF db_ok = "ok"
               THEN /\ leadership' = (leadership \ found) \cup {session}
                    /\ Answer("update_leadership", 200, TRUE,
                              "")
               ELSE /\ leadership' =
                         db_rollback(leadership,
                                     (leadership \ found) \cup {session})
                    /\ Answer("update_leadership", 500, FALSE,
                              "Internal Server Error")
    /\ UNCHANGED <<news, gallery, subscribers, inflight>>
    /\ UNCHANGED identity

reorder_leadership(items, db_ok) ==
    LET session == reorder_loop(leadership, items) IN
    /\ IF ~session.raised /\ db_ok = "ok"
       THEN /\ leadership' = session.rows
            /\ Answer("reorder_leadership", 200, TRUE,
                      "")
       ELSE /\ leadership' = db_rollback(leadership, session.rows)
            /\ Answer("reorder_leadership", 500, FALSE,
                      "Failed to reorder leadership profiles")
    /\ UNCHANGED <<news, gallery, subscribers, blobs, serial, inflight>>
    /\ UNCHANGED identity

delete_leadership(leadership_id, db_ok) ==
    LET found == {l \in leadership : l.id = leadership_id}
        db_leadership == the(found)
    IN
    /\ IF found = {}
       THEN /\ Answer("delete_leadership", 404, FALSE,
                      "Leadership profile not found")
            /\ UNCHANGED <<leadership, blobs>>
       ELSE /\ blobs' = s3_delete(blobs, db_leadership.profile_image_url)
            /\ IF db_ok = "ok"
               THEN /\ leadership' = leadership \ found
                    /\ Answer("delete_leadership", 200, TRUE,
                              "")
               ELSE /\ leadership' = leadership
                    /\ Answer("delete_leadership", 500, FALSE,
                              "Internal Server Error")
    /\ UNCHANGED <<news, gallery, subscribers, serial, inflight>>
    /\ UNCHANGED identity

-----------------------------------------------------------------------------
\* The routes of the admin gallery and leadership routers, in the order the
\* decorators register them, and the dispatch of a request to the first route
\* whose method and path match.

GalleryRoutes ==
    <<[method |-> "POST", path |-> "/", endpoint |-> "create_gallery"],
      [method |-> "GET", path |-> "/", endpoint |-> "read_gallery_list"],
      [method |-> "GET", path |-> "/{id}", endpoint |-> "read_gallery"],
      [method |-> "PUT", path |-> "/{id}", endpoint |-> "update_gallery"],
      [method |-> "PUT", path |-> "/reorder", endpoint |-> "reorder_gallery"],
      [method |-> "DELETE", path |-> "/{id}", endpoint |-> "delete_gallery"]>>

LeadershipRoutes ==
    <<[method |-> "POST", path |-> "/", endpoint |-> "create_leadership"],
      [method |-> "GET", path |-> "/", endpoint |-> "read_leadership_list"],
      [method |-> "GET", path |-> "/{id}", endpoint |-> "read_leadership"],
      [method |-> "PUT", path |-> "/{id}",
       endpoint |-> "update_leadership"],
      [method |-> "PUT", path |-> "/reorder",
       endpoint |-> "reorder_leadership"],
      [method |-> "DELETE", path |-> "/{id}",
       endpoint |-> "delete_leadership"]>>

\* The path of a request below the router's prefix is one segment.
Segments == {"1", "2", "reorder"}

\* A path parameter matches any segment; a literal path matches itself.
route_matches(route, method, segment) ==
    /\ route.method = method
    /\ CASE route.path = "/" -> segment = ""
         [] route.path = "/{id}" -> segment # ""
         [] route.path = "/reorder" -> segment = "reorder"
         [] OTHER -> FALSE

dispatch(routes, method, segment) ==
    LET hits == {i \in DOMAIN routes :
                    route_matches(routes[i], method, segment)}
        first == CHOOSE i \in hits : \A j \in hits : i <= j
    IN IF hits = {} THEN "not_found" ELSE routes[first].endpoint

\* The validation of an int path parameter: the number, or nothing (422).
int_path_param(segment) ==
    CASE segment = "1" -> {1}
      [] segment = "2" -> {2}
      [] OTHER -> {}

\* The bodies of a reorder request: lists of {id, display_order}, a key
\* possibly missing.
ReorderItems ==
    {[id |-> {1}, display_order |-> {2}],
     [id |-> {2}, display_order |-> {1}],
     [id |-> {2}, display_order |-> {}]}

ReorderBodies ==
    {<<>>} \cup {<<a>> : a \in ReorderItems}
           \cup {<<a, b>> : a \in ReorderItems, b \in ReorderItems}

\* PUT /admin/gallery/<segment> as the router serves it.
put_admin_gallery(segment, title, description, category, display_order, image, remove_image, items, stored, db_ok) ==
    LET endpoint == dispatch(GalleryRoutes, "PUT", segment) IN
    IF endpoint = "reorder_gallery"
    THEN reorder_gallery(items, db_ok)
    ELSE IF int_path_param(segment) = {}
    THEN /\ Answer(endpoint, 422, FALSE,
                   "value is not a valid integer")
         /\ UNCHANGED site
         /\ UNCHANGED identity
    ELSE update_gallery(the(int_path_param(segment)), title, description,
                        category, display_order, image, remove_image,
                        stored, db_ok)

\* PUT /admin/leadership/<segment> as the router serves it.
put_admin_leadership(segment, name, campus, category, display_order, profile_image, remove_image, items, stored, db_ok) ==
    LET endpoint == dispatch(LeadershipRoutes, "PUT", segment) IN
    IF endpoint = "reorder_leadership"
    THEN reorder_leadership(items, db_ok)
    ELSE IF int_path_param(segment) = {}
    THEN /\ Answer(endpoint, 422, FALSE,
                   "value is not a valid integer")
         /\ UNCHANGED site
         /\ UNCHANGED identity
    ELSE update_leadership(the(int_path_param(segment)), name, campus,
                           category, display_order, profile_image,
                           remove_image, stored, db_ok)

-----------------------------------------------------------------------------
\* The requests the wrappers below draw.

\* The forms of an update: no field, one field, or every field provided.
Sparse(forms) ==
    {f \in forms :
        \/ Cardinality({k \in DOMAIN f : f[k] # {}}) <= 1
        \/ \A k \in DOMAIN f : f[k] # {}}

GalleryForms ==
    Sparse([title : Opt(GalleryTitles), description : Opt(Descriptions),
            category : Opt(CategoryInputs), display_order : Opt(Orders)])

LeadershipForms ==
    Sparse([name : Opt(Names), campus : Opt(CampusInputs),
            category : Opt(LeaderCategoryInputs),
            display_order : Opt(Orders)])

\* A file part, and with it the remove_image flag that can matter.
FileParts ==
    {<<"none", "false">>, <<"none", "true">>, <<"image", "false">>,
     <<"text", "false">>}

-----------------------------------------------------------------------------
\* The gallery router at work, one request at a time.

PostGallery ==
    \E title \in GalleryTitles, description \in Opt({" Finals "}),
       category \in {"events", "SPORTS", "picnic"},
       display_order \in {0, 3}, image \in Uploads, db_ok \in CommitOutcomes :
      \E stored \in UploadOutcomes(image) :
        create_gallery(title, description, category, display_order,
                       image, stored, db_ok)

GetGallery ==
    \E gallery_id \in GalleryIds :
        read_gallery(gallery_id) \/ read_public_gallery(gallery_id)

PutGallery ==
    \E segment \in Segments, db_ok \in CommitOutcomes :
        IF segment = "reorder"
        THEN \E items \in ReorderBodies :
                put_admin_gallery(segment, {}, {}, {}, {}, "none", "false",
                                  items, TRUE, db_ok)
        ELSE \E form \in GalleryForms, file \in FileParts :
               \E stored \in UploadOutcomes(file[1]) :
                put_admin_gallery(segment, form.title, form.description,
                                  form.category, form.display_order,
                                  file[1], file[2], <<>>, stored, db_ok)

DeleteGallery ==
    \E gallery_id \in GalleryIds, db_ok \in CommitOutcomes :
        delete_gallery(gallery_id, db_ok)

InitGallery == Serving /\ ContentEmpty

NextGallery ==
    \/ PostGallery
    \/ GetGallery
    \/ PutGallery
    \/ DeleteGallery

SpecGallery == InitGallery /\ [][NextGallery]_vars

-----------------------------------------------------------------------------
\* The leadership router at work, one request at a time.

PostLeadership ==
    \E name \in Names, campus \in CampusInputs,
       category \in LeaderCategoryInputs, display_order \in {0, 3},
       profile_image \in Uploads, db_ok \in CommitOutcomes :
      \E stored \in UploadOutcomes(profile_image) :
        create_leadership(name, campus, category, display_order,
                          profile_image, stored, db_ok)

GetLeadership ==
    \E leadership_id \in LeadershipIds :
        \/ read_leadership(leadership_id)
        \/ read_public_leadership(leadership_id)

PutLeadership ==
    \E segment \in Segments, db_ok \in CommitOutcomes :
        IF segment = "reorder"
        THEN \E items \in ReorderBodies :
                put_admin_leadership(segment, {}, {}, {}, {}, "none",
                                     "false", items, TRUE, db_ok)
        ELSE \E form \in LeadershipForms, file \in FileParts :
               \E stored \in UploadOutcomes(file[1]) :
                put_admin_leadership(segment, form.name, form.campus,
                                     form.category, form.display_order,
                                     file[1], file[2], <<>>, stored, db_ok)

DeleteLeadership ==
    \E leadership_id \in LeadershipIds, db_ok \in CommitOutcomes :
        delete_leadership(leadership_id, db_ok)

InitLeadership == Serving /\ ContentEmpty

NextLeadership ==
    \/ PostLeadership
    \/ GetLeadership
    \/ PutLeadership
    \/ DeleteLeadership

SpecLeadership == InitLeadership /\ [][NextLeadership]_vars

-----------------------------------------------------------------------------
\* The three update handlers over a database that holds one row, in one of
\* the three tables, as the create handlers write it.

StoredImages == {{}, {1}}

StoredNews(url) ==
    [id |-> 1, title |-> "Fees notice", slug |-> <<"fees", "notice">>,
     content |-> Body, published_at |-> "2026-03-01T09:00",
     featured_image_url |-> url]

StoredGallery(url) ==
    [id |-> 1, title |-> "Sports day", description |-> {"Finals"},
     category |-> "EVENTS", display_order |-> 1, image_url |-> url]

StoredLeadership(url) ==
    [id |-> 1, name |-> "Jane Doe", campus |-> "MAIN",
     category |-> "EXECUTIVE", display_order |-> 1,
     profile_image_url |-> url]

InitUpdate ==
    /\ Serving
    /\ \E table \in {"news", "gallery", "leadership"},
          url \in StoredImages :
        /\ table = "gallery" => url # {}
        /\ news = IF table = "news" THEN {StoredNews(url)} ELSE {}
        /\ gallery = IF table = "gallery" THEN {StoredGallery(url)} ELSE {}
        /\ leadership = IF table = "leadership"
                        THEN {StoredLeadership(url)} ELSE {}
        /\ blobs = url
        /\ serial = [news |-> IF table = "news" THEN 1 ELSE 0,
                     subscribers |-> 0, blobs |-> Cardinality(url)]
    /\ subscribers = {}
    /\ inflight = {}

\* What an update request brings beside its form: the file part, the
\* remove_image flag, and what becomes of the upload and of the commit.
Attempts ==
    {[file |-> "none", remove_image |-> "false", stored |-> TRUE,
      db_ok |-> "ok"],
     [file |-> "none", remove_image |-> "false", stored |-> TRUE,
      db_ok |-> "OperationalError"],
     [file |-> "none", remove_image |-> "true", stored |-> TRUE,
      db_ok |-> "ok"],
     [file |-> "image", remove_image |-> "false", stored |-> TRUE,
      db_ok |-> "ok"],
     [file |-> "image", remove_image |-> "false", stored |-> FALSE,
      db_ok |-> "ok"],
     [file |-> "text", remove_image |-> "false", stored |-> TRUE,
      db_ok |-> "ok"]}

NewsUpdates ==
    Sparse([title : Opt({" Fees notice ", "Fees"}),
            content : Opt({" Fees are due on Friday; pay at the finance office. ",
                           "Soon."}),
            published_at : Opt(PublishedInputs)])

GalleryUpdates ==
    Sparse([title : Opt(GalleryTitles), description : Opt(Descriptions),
            category : Opt({"EVENTS", "SPORTS"}),
            display_order : Opt(Orders)])

LeadershipUpdates ==
    Sparse([name : Opt(Names), campus : Opt({"MAIN", "KAREN", "main"}),
            category : Opt({"EXECUTIVE"}), display_order : Opt(Orders)])

UpdateNewsRow ==
    \E form \in NewsUpdates, try \in Attempts :
        /\ inflight = {}
        /\ try.db_ok = "ok"
        /\ update_news(1, form.title, form.content, form.published_at,
                       try.file, try.remove_image, try.stored)

UpdateGalleryRow ==
    \E form \in GalleryUpdates, try \in Attempts :
        update_gallery(1, form.title, form.description, form.category,
                       form.display_order, try.file, try.remove_image,
                       try.stored, try.db_ok)

UpdateLeadershipRow ==
    \E form \in LeadershipUpdates, try \in Attempts :
        update_leadership(1, form.name, form.campus, form.category,
                          form.display_order, try.file, try.remove_image,
                          try.stored, try.db_ok)

NextUpdate ==
    \/ UpdateNewsRow
    \/ UpdateNewsCommit
    \/ UpdateGalleryRow
    \/ UpdateLeadershipRow

SpecUpdate == InitUpdate /\ [][NextUpdate]_vars

-----------------------------------------------------------------------------
\* The two reorder handlers called with a request body, over tables of one
\* or two rows.

StoredOrders == {1, 3}

InitReorder ==
    /\ Serving
    /\ \E first \in StoredOrders, second \in StoredOrders,
          rows \in {{1}, {1, 2}} :
        /\ gallery =
             {[StoredGallery({i}) EXCEPT
                 !.id = i,
                 !.display_order = IF i = 1 THEN first ELSE second] :
              i \in rows}
        /\ leadership =
             {[StoredLeadership({}) EXCEPT
                 !.id = i,
                 !.display_order = IF i = 1 THEN second ELSE first] :
              i \in rows}
        /\ blobs = rows
    /\ news = {}
    /\ subscribers = {}
    /\ serial = [news |-> 0, subscribers |-> 0, blobs |-> 2]
    /\ inflight = {}

ReorderGallery ==
    \E items \in ReorderBodies, db_ok \in CommitOutcomes :
        reorder_gallery(items, db_ok)

ReorderLeadership ==
    \E items \in ReorderBodies, db_ok \in CommitOutcomes :
        reorder_leadership(items, db_ok)

NextReorder ==
    \/ ReorderGallery
    \/ ReorderLeadership

SpecReorder == InitReorder /\ [][NextReorder]_vars

\* ------------------------------------------------------------------------
\* Newsletter subscribers (src/app/routers/admin_subscriber.py).
\*
\* A handler runs in a worker thread with a database session of its own: it
\* loads a row, assigns attributes of the loaded object and commits.  Other
\* requests commit between the load and the commit, so each writing handler
\* is two steps: the handler body up to db.commit(), which leaves the
\* session in `inflight`, and the commit.  The commit of a loaded object
\* writes the columns whose assigned value differs from the loaded one (the
\* ORM's unit of work); the columns it does not write keep what the table
\* holds by then.  Of the columns, subscribed_at is left out: no handler
\* reads it.
\* ------------------------------------------------------------------------

\* An address kept as typed (what a lookup without lower() would use).
str_as_typed(s) == s

\* str.lower() on the addresses the requests carry.
str_lower(s) ==
    CASE s = "A@x.org" -> "a@x.org"
      [] OTHER -> s

\* SubscriberModel.is_valid_email: the address has a local part, an @ and a
\* domain.
is_valid_email(s) == s \in {"a@x.org", "A@x.org"}

\* The addresses of the requests: one mailbox typed in two ways, and a
\* string that is no address.
EmailInputs == {"a@x.org", "A@x.org", "nobody"}

\* Row ids the table hands out.
SubscriberIds == 1..2

\* datetime.utcnow()
utcnow == {now}

\* The unique index on subscribers.email: no other row has the address.
email_unique_index(db, row) ==
    \A s \in db : s.id # row.id => s.email # row.email

\* The columns an assignment leaves dirty: those whose new value differs
\* from the loaded one.
dirty(loaded, assigned) ==
    {c \in DOMAIN assigned : assigned[c] # loaded[c]}

\* The columns the flush of a loaded object writes.
flushed_columns(loaded, assigned) == dirty(loaded, assigned)

\* The row after an UPDATE of the given columns.
written(row, assigned, columns) ==
    [c \in DOMAIN row |-> IF c \in columns THEN assigned[c] ELSE row[c]]

\* A session waiting for its commit.  Two requests that carry the same
\* thing have two sessions: twin tells the second from the first.
Pending(op, kind, row, assigned, columns) ==
    /\ Cardinality(inflight) < Cardinality(Workers)
    /\ inflight' = inflight \cup
           {[op |-> op, kind |-> kind, row |-> row, assigned |-> assigned,
             columns |-> columns,
             twin |-> \E r \in inflight :
                          /\ r.op = op /\ r.kind = kind /\ r.row = row
                          /\ r.assigned = assigned]}
    /\ resp' = NoResp
    /\ UNCHANGED <<subscribers, serial>>

\* Both status columns as one assignment.
Status(is_active, unsubscribed_at) ==
    [is_active |-> is_active, unsubscribed_at |-> unsubscribed_at]

\* POST /subscribe, up to its commit (lines 71-107).
subscribe(email) ==
    LET existing == {s \in subscribers : s.email = str_lower(email)}
        assigned == Status(TRUE, {})
        db_subscriber == [id |-> serial.subscribers + 1,
                          email |-> str_lower(email),
                          is_active |-> TRUE,
                          unsubscribed_at |-> {}]
    IN
    /\ UNCHANGED identity
    /\ UNCHANGED <<news, gallery, leadership, blobs>>
    /\ IF ~is_valid_email(email)
       THEN /\ Answer("subscribe", 400, FALSE, "Invalid email format")
            /\ UNCHANGED <<subscribers, serial, inflight>>
       ELSE IF existing # {}
       THEN LET row == CHOOSE s \in existing : TRUE IN
            IF row.is_active
            THEN /\ Answer("subscribe", 400, FALSE,
                           "Email already subscribed")
                 /\ UNCHANGED <<subscribers, serial, inflight>>
            ELSE Pending("subscribe", "update", row, assigned,
                         flushed_columns(row, assigned))
       ELSE /\ serial.subscribers
                   + Cardinality({r \in inflight : r.kind = "insert"})
               < Cardinality(SubscriberIds)
            /\ Pending("subscribe", "insert", db_subscriber, assigned, {})

\* POST /unsubscribe/{email}, up to its commit (lines 120-141).
unsubscribe(email) ==
    LET existing == {s \in subscribers : s.email = str_lower(email)}
        assigned == Status(FALSE, utcnow)
    IN
    /\ UNCHANGED identity
    /\ UNCHANGED <<news, gallery, leadership, blobs>>
    /\ IF existing = {}
       THEN /\ Answer("unsubscribe", 404, FALSE, "Subscriber not found")
            /\ UNCHANGED <<subscribers, serial, inflight>>
       ELSE LET row == CHOOSE s \in existing : TRUE IN
            IF ~row.is_active
            THEN /\ Answer("unsubscribe", 200, FALSE,
                           "Already unsubscribed")
                 /\ UNCHANGED <<subscribers, serial, inflight>>
            ELSE Pending("unsubscribe", "update", row, assigned,
                         flushed_columns(row, assigned))

\* PUT /admin/subscribers/{subscriber_id}, up to its commit (lines 214-236).
update_subscriber(subscriber_id, is_active) ==
    LET found == {s \in subscribers : s.id = subscriber_id}
    IN
    /\ UNCHANGED identity
    /\ UNCHANGED <<news, gallery, leadership, blobs>>
    /\ IF found = {}
       THEN /\ Answer("update_subscriber", 404, FALSE,
                      "Subscriber not found")
            /\ UNCHANGED <<subscribers, serial, inflight>>
       ELSE LET row == CHOOSE s \in found : TRUE
                assigned ==
                    IF is_active = {} THEN Status(row.is_active,
                                                  row.unsubscribed_at)
                    ELSE IF ~the(is_active) THEN Status(FALSE, utcnow)
                    ELSE Status(TRUE, {})
            IN Pending("update_subscriber", "update", row, assigned,
                       flushed_columns(row, assigned))

\* DELETE /admin/subscribers/{subscriber_id}, up to its commit (lines
\* 240-258).
delete_subscriber(subscriber_id) ==
    LET found == {s \in subscribers : s.id = subscriber_id}
    IN
    /\ UNCHANGED identity
    /\ UNCHANGED <<news, gallery, leadership, blobs>>
    /\ IF found = {}
       THEN /\ Answer("delete_subscriber", 404, FALSE,
                      "Subscriber not found")
            /\ UNCHANGED <<subscribers, serial, inflight>>
       ELSE LET row == CHOOSE s \in found : TRUE
            IN Pending("delete_subscriber", "delete", row,
                       Status(row.is_active, row.unsubscribed_at), {})

\* db.commit() of a waiting session.  An INSERT takes the next id of the
\* sequence and is refused by the unique index when the address is there
\* (IntegrityError, lines 115-118: rollback and 400).  An UPDATE writes its
\* columns to the row of the loaded id; when the row is gone it matches
\* nothing and the ORM raises, which nothing catches (500).  A DELETE of a
\* row that is gone matches nothing.
subscriber_commit(r) ==
    LET current == {s \in subscribers : s.id = r.row.id}
        inserted == [r.row EXCEPT !.id = serial.subscribers + 1]
    IN
    /\ r \in inflight
    /\ r.op \in {"subscribe", "unsubscribe", "update_subscriber",
                 "delete_subscriber"}
    /\ inflight' = inflight \ {r}
    /\ UNCHANGED identity
    /\ UNCHANGED <<news, gallery, leadership, blobs>>
    /\ CASE r.kind = "insert" ->
              /\ serial' = [serial EXCEPT !.subscribers = @ + 1]
              /\ IF email_unique_index(subscribers, inserted)
                 THEN /\ subscribers' = subscribers \cup {inserted}
                      /\ Answer(r.op, 201, TRUE, "")
                 ELSE /\ subscribers' = subscribers
                      /\ Answer(r.op, 400, FALSE, "Email already exists")
         [] r.kind = "update" ->
              /\ serial' = serial
              /\ IF current = {} /\ r.columns # {}
                 THEN /\ subscribers' = subscribers
                      /\ Answer(r.op, 500, FALSE, "Internal Server Error")
                 ELSE /\ subscribers' =
                             {IF s.id = r.row.id
                              THEN written(s, r.assigned, r.columns)
                              ELSE s : s \in subscribers}
                      /\ Answer(r.op, IF r.op = "subscribe" THEN 201
                                      ELSE 200,
                                r.columns # {}, "")
         [] r.kind = "delete" ->
              /\ serial' = serial
              /\ subscribers' = subscribers \ current
              /\ Answer(r.op, 200, TRUE, "Subscriber deleted")

\* Requests of the public and of an administrator, served side by side
\* while the clock runs.
Subscribe == \E email \in EmailInputs : subscribe(email)

Unsubscribe == \E email \in EmailInputs : unsubscribe(email)

UpdateSubscriber ==
    \E subscriber_id \in SubscriberIds, is_active \in Opt(BOOLEAN) :
        update_subscriber(subscriber_id, is_active)

DeleteSubscriber ==
    \E subscriber_id \in SubscriberIds : delete_subscriber(subscriber_id)

SubscriberCommit == \E r \in inflight : subscriber_commit(r)

InitSubscriber == Serving /\ ContentEmpty

NextSubscriber ==
    \/ Tick
    \/ Subscribe
    \/ Unsubscribe
    \/ UpdateSubscriber
    \/ DeleteSubscriber
    \/ SubscriberCommit

SpecSubscriber == InitSubscriber /\ [][NextSubscriber]_vars

-----------------------------------------------------------------------------
\* Claims about the content routers.

\* No two articles hold the same slug.
SlugsUnique == \A a \in news : \A b \in news : a.slug = b.slug => a = b

\* slug is what generate_unique_slug is to return for an article news_id
\* (0 for a new one) over the rows db: the base when no other article holds
\* it, else the first base-N, N = 1, 2, ..., that no other article holds.
FirstFreeSlug(db, base_slug, slug, news_id) ==
    LET held == {n.slug : n \in {m \in db : m.id # news_id}} IN
    /\ slug \notin held
    /\ base_slug \notin held => slug = base_slug
    /\ \/ slug = base_slug
       \/ \E N \in 1..Cardinality(db) :
            /\ slug = Append(base_slug, ToString(N))
            /\ \A k \in 1..(N - 1) : Append(base_slug, ToString(k)) \in held

\* A step in which create_news or update_news chose a slug chose the first
\* free one.
SlugChoiceStep ==
    /\ \A title \in Titles :
         (/\ create_news(title, Body, "2026-03-01T09:00:30", "none", TRUE)
          /\ resp'.slug # {})
         => FirstFreeSlug(news, generate_slug(title), the(resp'.slug), 0)
    /\ \A news_id \in NewsIds : \A title \in Titles :
         (/\ update_news(news_id, {title}, {}, {}, "none", "false", TRUE)
          /\ resp'.slug # {})
         => FirstFreeSlug(news, generate_slug(str_strip(title)),
                          the(resp'.slug), news_id)

SameAsNews(row, form) ==
    /\ form.title # {} => str_strip(the(form.title)) = row.title
    /\ form.content # {} => str_strip(the(form.content)) = row.content
    /\ form.published_at # {} =>
           parse_published_at(the(form.published_at)) = {row.published_at}

SameAsGallery(row, form) ==
    /\ form.title # {} => str_strip(the(form.title)) = row.title
    /\ form.description # {} =>
           strip_or_none(form.description) = row.description
    /\ form.category # {} => the(form.category) = row.category
    /\ form.display_order # {} =>
           the(form.display_order) = row.display_order

SameAsLeadership(row, form) ==
    /\ form.name # {} => str_strip(the(form.name)) = row.name
    /\ form.campus # {} => the(form.campus) = row.campus
    /\ form.category # {} => the(form.category) = row.category
    /\ form.display_order # {} =>
           the(form.display_order) = row.display_order

\* A step of an update handler whose form repeats the stored values, with no
\* file and the remove_image flag left at its default, leaves the tables and
\* the bucket as they are, commits nothing and, for news, sends no email.
NoOpUpdateStep ==
    /\ \A row \in news : \A form \in NewsUpdates :
         (/\ SameAsNews(row, form)
          /\ update_news(row.id, form.title, form.content,
                         form.published_at, "none", "false", TRUE))
         => /\ UNCHANGED <<news, blobs, inflight>>
            /\ resp'.status = 200
            /\ ~resp'.committed
            /\ ~resp'.emailed
    /\ \A row \in gallery : \A form \in GalleryUpdates :
       \A db_ok \in CommitOutcomes :
         (/\ SameAsGallery(row, form)
          /\ update_gallery(row.id, form.title, form.description,
                            form.category, form.display_order, "none",
                            "false", TRUE, db_ok))
         => /\ UNCHANGED <<gallery, blobs>>
            /\ resp'.status = 200
            /\ ~resp'.committed
    /\ \A row \in leadership : \A form \in LeadershipUpdates :
       \A db_ok \in CommitOutcomes :
         (/\ SameAsLeadership(row, form)
          /\ update_leadership(row.id, form.name, form.campus,
                               form.category, form.display_order, "none",
                               "false", TRUE, db_ok))
         => /\ UNCHANGED <<leadership, blobs>>
            /\ resp'.status = 200
            /\ ~resp'.committed

\* C22: update_news, update_gallery and update_leadership, given no image
\* file and field values that all equal the stored ones after trimming,
\* change nothing: no commit, no field written, no blob deleted, and for
\* news no email.
C22_IdempotentUpdate == [][NoOpUpdateStep]_vars

\* An update answered 200 without a commit, on a row that an earlier update
\* had changed and whose image is in the bucket.
C22_Witness ==
    /\ resp.op \in {"update_news", "update_gallery", "update_leadership"}
    /\ resp.status = 200
    /\ ~resp.committed
    /\ \/ \E n \in news : n # StoredNews(n.featured_image_url)
                          /\ n.featured_image_url \subseteq blobs
       \/ \E g \in gallery : g # StoredGallery(g.image_url)
                             /\ g.image_url \subseteq blobs
       \/ \E l \in leadership : l # StoredLeadership(l.profile_image_url)
                                /\ l.profile_image_url \subseteq blobs

\* C23: after any create, update or delete request, also one that ends in
\* an error, every image URL a row of news, gallery or leadership holds is
\* the URL of an object in the bucket (no request being between its reads
\* and its commit).
C23_BlobIntegrity ==
    inflight = {} =>
        /\ \A n \in news : n.featured_image_url \subseteq blobs
        /\ \A g \in gallery : g.image_url \subseteq blobs
        /\ \A l \in leadership : l.profile_image_url \subseteq blobs

\* An update with a new file was answered 500 because the upload failed; the
\* row still holds the URL of the old image, which the handler had deleted.
C23_DanglingImage ==
    /\ resp.op \in {"update_news", "update_gallery", "update_leadership"}
    /\ resp.status = 500
    /\ ~resp.committed
    /\ inflight = {}
    /\ \/ \E n \in news : ~(n.featured_image_url \subseteq blobs)
       \/ \E g \in gallery : ~(g.image_url \subseteq blobs)
       \/ \E l \in leadership : ~(l.profile_image_url \subseteq blobs)

\* A PUT whose path below the router's prefix is "reorder" is served by the
\* reorder handler.
ReorderDispatchStep ==
    \A items \in ReorderBodies : \A db_ok \in CommitOutcomes :
        put_admin_gallery("reorder", {}, {}, {}, {}, "none", "false", items,
                          TRUE, db_ok)
        => resp'.op = "reorder_gallery"

\* C24: an authenticated PUT /admin/gallery/reorder is dispatched to the
\* reorder handler, not to the update-by-id handler registered for
\* PUT /{id}.
C24_ReorderDispatched == [][ReorderDispatchStep]_vars

\* The update-by-id route took a PUT whose path segment is no integer and
\* answered 422, with a row in the table that a reorder could have moved.
C24_ReorderShadowed ==
    /\ resp.op = "update_gallery"
    /\ resp.status = 422
    /\ gallery # {}

\* The display order the list asks for a row: that of the last item that
\* names the row.
Listed(items, id) == {i \in DOMAIN items : items[i].id = {id}}

RequestedOrder(items, id) ==
    LET last == CHOOSE i \in Listed(items, id) :
                    \A j \in Listed(items, id) : j <= i
    IN the(items[last].display_order)

\* What a reorder answered: on success every listed row has the order asked
\* for, every other row is as it was and no row was added for a missing id;
\* on an error the table is as it was.
Reordered(before, after, items) ==
    IF resp'.status = 200
    THEN /\ {r.id : r \in after} = {r.id : r \in before}
         /\ \A r \in before :
              IF Listed(items, r.id) # {}
              THEN [r EXCEPT !.display_order = RequestedOrder(items, r.id)]
                       \in after
              ELSE r \in after
    ELSE after = before

ReorderStep ==
    \A items \in ReorderBodies : \A db_ok \in CommitOutcomes :
        /\ reorder_gallery(items, db_ok)
               => Reordered(gallery, gallery', items)
        /\ reorder_leadership(items, db_ok)
               => Reordered(leadership, leadership', items)

\* C25: reorder_gallery and reorder_leadership are all-or-nothing: on
\* success each listed existing item has the requested display_order,
\* missing ids are skipped and unlisted items are unchanged; on any error no
\* persisted display_order changes.
C25_ReorderAllOrNothing == [][ReorderStep]_vars

\* A reorder succeeded: the first row was moved to the second place, and the
\* second row, which the list did not name, kept the order it had.
C25_Witness ==
    /\ resp.op \in {"reorder_gallery", "reorder_leadership"}
    /\ resp.status = 200
    /\ \/ /\ resp.op = "reorder_gallery"
          /\ \E g \in gallery : g.id = 1 /\ g.display_order = 2
          /\ \E g \in gallery : g.id = 2 /\ g.display_order = 3
       \/ /\ resp.op = "reorder_leadership"
          /\ \E l \in leadership : l.id = 1 /\ l.display_order = 2
          /\ \E l \in leadership : l.id = 2 /\ l.display_order = 3

\* Two addresses that are one once lower-cased.
SameMailbox(a, b) == a = b \/ {a, b} = {"a@x.org", "A@x.org"}

\* No two rows of the table hold the same lower-cased address.
EmailsUnique ==
    \A s, t \in subscribers : SameMailbox(s.email, t.email) => s = t

\* A subscribe request whose address has an active row is answered 400 and
\* leaves every row as it is.
ActiveRejectedStep ==
    \A email \in EmailInputs :
        (/\ \E s \in subscribers :
                s.is_active /\ SameMailbox(s.email, email)
         /\ subscribe(email))
        => /\ resp'.op = "subscribe"
           /\ resp'.status = 400
           /\ subscribers' = subscribers

C27_ActiveIffNoUnsubscribedAt ==
    \A s \in subscribers : s.is_active <=> s.unsubscribed_at = {}

\* A row is active and carries an unsubscription time, with no session
\* left to commit.
C27_ActiveButUnsubscribed ==
    /\ inflight = {}
    /\ \E s \in subscribers : s.is_active /\ s.unsubscribed_at # {}

\* A create_gallery with display order 0 that wrote a row gave it an order
\* above that of every row its category already had.
AppendedLastStep ==
    \A title \in GalleryTitles : \A description \in Opt({" Finals "}) :
    \A category \in CategoryInputs :
        create_gallery(title, description, category, 0, "image", TRUE, "ok")
        => \A new \in gallery' \ gallery : \A g \in gallery :
              g.category = new.category
                  => new.display_order > g.display_order

\* C28: create_gallery (and create_leadership) called with display order 0
\* assigns a display_order greater than that of every item already in the
\* same category (campus and category), whatever creates, updates, reorders
\* and deletes came before.
C28_AppendedLast == [][AppendedLastStep]_vars

\* A create has just written the second row of a category with the order 2,
\* an order that only the automatic assignment gives here, and the first
\* row of the category holds the order 3.
C28_NotLast ==
    /\ resp.op = "create_gallery"
    /\ resp.status = 200
    /\ \E a \in gallery : \E b \in gallery :
         /\ a.id = 1
         /\ b.id = 2
         /\ a.category = b.category
         /\ a.display_order = 3
         /\ b.display_order = 2

\* A read of an item the table does not hold is answered 404, by the admin
\* endpoint and by the public one.
NotFoundStep ==
    \A gallery_id \in GalleryIds :
        (/\ \A g \in gallery : g.id # gallery_id
         /\ read_gallery(gallery_id) \/ read_public_gallery(gallery_id))
        => resp'.status = 404

\* C29: fetching a gallery item (or leadership profile) that does not exist
\* yields 404 on the public endpoint exactly as on the admin endpoint, and
\* never 500.
C29_PublicNotFound == [][NotFoundStep]_vars

\* The public endpoint answered 500 to a read, with no failure of the
\* database: the table holds a row, only not the one asked for.
C29_NotFoundAs500 ==
    /\ resp.op = "read_public_gallery"
    /\ resp.status = 500
    /\ gallery # {}

\* The enum member create_leadership reads a campus string as: it uppercases
\* the string and then looks it up.
CreateCampus(s) == CampusType(coerce_upper(s))

\* The enum member create_leadership reads a category string as.
CreateCategory(s) == LeadershipCategory(coerce_upper(s))

\* An update of an existing profile that sends only a campus, or only a
\* category, is refused with 400 exactly when create_leadership refuses the
\* same string, and otherwise leaves the member create_leadership would have
\* stored.
EnumCoercionStep ==
    \A row \in leadership, db_ok \in CommitOutcomes :
        /\ \A campus \in CampusInputs :
               update_leadership(row.id, {}, {campus}, {}, {}, "none",
                                 "false", TRUE, db_ok)
               => /\ resp'.status = 400 <=> CreateCampus(campus) = {}
                  /\ resp'.status = 200 =>
                         \E l \in leadership' :
                             /\ l.id = row.id
                             /\ {l.campus} = CreateCampus(campus)
        /\ \A category \in LeaderCategoryInputs :
               update_leadership(row.id, {}, {}, {category}, {}, "none",
                                 "false", TRUE, db_ok)
               => /\ resp'.status = 400 <=> CreateCategory(category) = {}
                  /\ resp'.status = 200 =>
                         \E l \in leadership' :
                             /\ l.id = row.id
                             /\ {l.category} = CreateCategory(category)

\* C30: every campus and category string create_leadership accepts is
\* accepted by update_leadership and maps to the same enum member, and a
\* string one of them rejects is rejected with 400 by the other.
C30_EnumCoercionUniform == [][EnumCoercionStep]_vars

\* update_leadership refused a category although every category string the
\* requests carry is one create_leadership accepts.
C30_AcceptedByCreateOnly ==
    /\ \A category \in LeaderCategoryInputs : CreateCategory(category) # {}
    /\ resp.op = "update_leadership"
    /\ resp.status = 400
    /\ resp.detail = "Invalid category value"

====
